---- MODULE Spec2Model ----
(***************************************************************************)
(* Plagify: the CheckerScreen client (handleAnalyze and the bulk payload   *)
(* builder), the two Next.js proxy routes (/api/compare and                *)
(* /api/bulk-compare) with the upstream analysis service as environment,   *)
(* and the layout function of the AST visualizer.                          *)
(*                                                                         *)
(* JavaScript strings that the code trims, splits or matches are modelled  *)
(* as sequences of one-character strings; messages that are only passed    *)
(* on and tested for emptiness are TLA+ strings.  null / undefined state   *)
(* values are the empty tuple, a present value v is <<v>>.                 *)
(***************************************************************************)
EXTENDS Integers, Sequences, FiniteSets, TLC

VARIABLES
    \* ---- CheckerScreen state (useState hooks) ----
    mode,             \* "single" | "bulk"
    codeA,            \* reference editor text
    codeB,            \* submission editor text
    uploadedFiles,    \* Record<string,string> as a sequence of [name, code] in key order
    isAnalyzing,
    analysis,         \* Null or <<AnalysisResult>>
    bulkResults,      \* Null or <<sequence of BulkResultView>>
    bulkSortBy,       \* "plagiarism" | "quality"
    selectedBulkId,   \* Null or <<id>>
    errorMessage,     \* Null or <<string>>
    selectedFilename, \* Null or <<file name>>
    uploadError,      \* Null or <<string>>
    \* ---- asynchronous continuations ----
    runs,             \* one record per Analyze click: the handleAnalyze invocation
    selTimer,         \* the setTimeout(0) of the selection effect is pending
    uploads,          \* handleBulkFileSelect invocations awaiting file.text()
    \* ---- HTTP exchanges (client -> proxy route -> upstream and back) ----
    net,
    \* ---- pure-function harnesses ----
    fileMap,          \* input of buildBulkSubmissionPayload
    payload,          \* Null or <<its result>>
    astInput,         \* input of coerceAst: a parsed JSON value
    coerced,          \* Null or <<its outcome>>
    clock,            \* milliseconds elapsed, for the timers of the placeholder calls
    calls,            \* the calls made to the placeholder functions
    forest,           \* input of layoutForest
    positions,        \* Null or <<its result>>
    \* ---- ASTVisualizer state (useState and useRef hooks) ----
    viewRef,          \* ViewState: scale, offsetX, offsetY
    dimensions,       \* width and height of the container
    hasInteractedRef,
    dragging,
    pointerOrigin,    \* client position of the last pointer event of a drag
    observed          \* the ResizeObserver watches the mounted container

vars == <<mode, codeA, codeB, uploadedFiles, isAnalyzing, analysis, bulkResults,
          bulkSortBy, selectedBulkId, errorMessage, selectedFilename, uploadError,
          runs, selTimer, uploads, net, fileMap, payload, astInput, coerced, forest,
          positions, clock, calls, viewRef, dimensions, hasInteractedRef, dragging,
          pointerOrigin, observed>>

uiVars == <<mode, codeA, codeB, uploadedFiles, isAnalyzing, analysis, bulkResults,
            bulkSortBy, selectedBulkId, errorMessage, selectedFilename, uploadError,
            runs, selTimer, uploads>>

idVars == <<fileMap, payload>>

layoutVars == <<astInput, coerced, forest, positions>>

placeholderVars == <<clock, calls>>

viewVars == <<viewRef, dimensions, hasInteractedRef, dragging, pointerOrigin, observed>>

Null == <<>>

Some(v) == <<v>>

(***************************************************************************)
(* Bounds of the model.                                                    *)
(***************************************************************************)
\* Analyze clicks (handleAnalyze invocations) in one behaviour.
MaxRuns == 2

\* Entries of the submissions array of an external bulk request.
MaxEntries == 2

\* handleBulkFileSelect invocations that await their files' text at one time.
MaxUploads == 1

\* Files of an uploaded-file map given to buildBulkSubmissionPayload.
MaxFiles == 3

\* Characters of an uploaded file's name before its ".py".
MaxStem == 2

\* Nodes of an AST forest given to layoutForest.
MaxNodes == 6

\* JSON values (arrays, objects, primitives, null) of an AST blob given to coerceAst.
MaxAst == 3

(***************************************************************************)
(* JavaScript string primitives.                                           *)
(***************************************************************************)
IsSpace(c) == c = " "

RECURSIVE TrimStart(_)
TrimStart(s) ==
    IF s # <<>> /\ IsSpace(Head(s)) THEN TrimStart(Tail(s)) ELSE s

RECURSIVE TrimEnd(_)
TrimEnd(s) ==
    IF s # <<>> /\ IsSpace(s[Len(s)]) THEN TrimEnd(SubSeq(s, 1, Len(s) - 1)) ELSE s

\* String.prototype.trim
Trim(s) == TrimEnd(TrimStart(s))

\* !s.trim()
IsBlank(s) == Trim(s) = <<>>

\* s.replace(/\s+/g, "_"): every maximal run of white space becomes one "_".
RECURSIVE ReplaceWhitespaceRuns(_)
ReplaceWhitespaceRuns(s) ==
    IF s = <<>> THEN <<>>
    ELSE IF IsSpace(Head(s)) THEN <<"_">> \o ReplaceWhitespaceRuns(TrimStart(s))
    ELSE <<Head(s)>> \o ReplaceWhitespaceRuns(Tail(s))

\* Decimal digits of a template literal `${n}`.
DigitChar(n) ==
    CASE n = 0 -> "0" [] n = 1 -> "1" [] n = 2 -> "2" [] n = 3 -> "3" [] n = 4 -> "4"
      [] n = 5 -> "5" [] n = 6 -> "6" [] n = 7 -> "7" [] n = 8 -> "8" [] n = 9 -> "9"

RECURSIVE Decimal(_)
Decimal(n) == IF n < 10 THEN <<DigitChar(n)>> ELSE Decimal(n \div 10) \o <<DigitChar(n % 10)>>

(***************************************************************************)
(* JavaScript values as far as the code inspects them.                     *)
(*                                                                         *)
(* A field of a parsed request body: typeof (string or not) and, for a     *)
(* string, its characters.                                                 *)
(***************************************************************************)
Undefined == [type |-> "undefined", s |-> <<>>]

NonString == [type |-> "other", s |-> <<>>]

Str(s) == [type |-> "string", s |-> s]

\* typeof v === "string" ? v : dflt
StringOr(v, dflt) == IF v.type = "string" THEN v.s ELSE dflt

Python == <<"p", "y", "t", "h", "o", "n">>

(***************************************************************************)
(* The "message" member of a response body: its typeof, its truthiness     *)
(* and the text String(v) gives (what new Error(v).message holds).         *)
(***************************************************************************)
NoMessage == [type |-> "undefined", truthy |-> FALSE, str |-> "undefined"]

Message(text) == [type |-> "string", truthy |-> text # "", str |-> text]

\* message: []   (typeof "object", truthy, String([]) = "")
EmptyArrayMessage == [type |-> "object", truthy |-> TRUE, str |-> ""]

(***************************************************************************)
(* A parsed JSON body: null, a falsy scalar (0, false, ""), or an object   *)
(* with the members the client and the routes read.                        *)
(***************************************************************************)
NotArray == [isArray |-> FALSE, items |-> <<>>]

Array(items) == [isArray |-> TRUE, items |-> items]

JsonNull ==
    [type |-> "null", ok |-> FALSE, message |-> NoMessage, results |-> NotArray,
     plagiarism_score |-> Null, details |-> "undefined"]

JsonFalsy ==
    [type |-> "falsy", ok |-> FALSE, message |-> NoMessage, results |-> NotArray,
     plagiarism_score |-> Null, details |-> "undefined"]

JsonObject(ok, message, results, score) ==
    [type |-> "object", ok |-> ok, message |-> message, results |-> results,
     plagiarism_score |-> score, details |-> "undefined"]

\* { ok: false, message }
ErrorBody(text) == JsonObject(FALSE, Message(text), NotArray, Null)

\* { ok: false, message, details: data }
ErrorBodyWithDetails(text, data) == [ErrorBody(text) EXCEPT !.details = data.type]

\* !data
IsFalsyJson(data) == data.type \in {"null", "falsy"}

(***************************************************************************)
(* Text of an upstream response body and JSON.parse of it.                 *)
(***************************************************************************)
EmptyText == [text |-> "empty", json |-> JsonNull]

GarbageText == [text |-> "garbage", json |-> JsonNull]

JsonText(v) == [text |-> "json", json |-> v]

\* try { data = text ? JSON.parse(text) : null } catch { /* data stays null */ }
ParseUpstreamText(t) == IF t.text = "json" THEN t.json ELSE JsonNull

\* `Upstream error (${status})`
UpstreamErrorMessage(status) ==
    CASE status = 404 -> "Upstream error (404)"
      [] status = 500 -> "Upstream error (500)"
      [] status = 502 -> "Upstream error (502)"
      [] status = 503 -> "Upstream error (503)"
      [] OTHER -> "Upstream error (status)"

\* Response.ok
StatusOk(status) == status >= 200 /\ status <= 299

(***************************************************************************)
(* What a route handler does next: answer the client or fetch upstream.    *)
(***************************************************************************)
NoRequest == [language |-> <<>>, reference_code |-> <<>>, submission_code |-> <<>>,
              submissions |-> <<>>]

Reply(status, body) == [act |-> "reply", status |-> status, body |-> body, fetch |-> NoRequest]

Fetch(request) == [act |-> "fetch", status |-> 0, body |-> JsonNull, fetch |-> request]

\* catch (error) { ... error.message ..., status: 500 }
ServerError(text) == Reply(500, ErrorBody(text))

(***************************************************************************)
(* POST /api/compare                                                       *)
(***************************************************************************)
\* CompareRouteReceive refusing a request only when both codes are blank.
CompareRouteReceiveBothBlank(body) ==
    IF ~body.parses THEN ServerError("Unexpected token in JSON")
    ELSE
      LET language == StringOr(body.language, Python)
          reference_code == StringOr(body.reference_code, <<>>)
          submission_code == StringOr(body.submission_code, <<>>)
      IN  IF IsBlank(reference_code) /\ IsBlank(submission_code)
          THEN Reply(400, ErrorBody("Both reference_code and submission_code are required"))
          ELSE Fetch([language |-> language, reference_code |-> reference_code,
                      submission_code |-> submission_code, submissions |-> <<>>])

\* Up to the await of fetch.
CompareRouteReceive(body) ==
    IF ~body.parses THEN ServerError("Unexpected token in JSON")
    ELSE
      LET language == StringOr(body.language, Python)
          reference_code == StringOr(body.reference_code, <<>>)
          submission_code == StringOr(body.submission_code, <<>>)
      IN  IF IsBlank(reference_code) \/ IsBlank(submission_code)
          THEN Reply(400, ErrorBody("Both reference_code and submission_code are required"))
          ELSE Fetch([language |-> language, reference_code |-> reference_code,
                      submission_code |-> submission_code, submissions |-> <<>>])

\* UpstreamFailureReply answering 502 Bad Gateway whatever the upstream status.
UpstreamFailureReplyBadGateway(up, data) ==
    LET message == IF data.message.type = "string" THEN data.message.str
                   ELSE UpstreamErrorMessage(up.status)
    IN  Reply(502, ErrorBodyWithDetails(message, data))

\* if (!upstreamResponse.ok) { ... }
UpstreamFailureReply(up, data) ==
    LET message == IF data.message.type = "string" THEN data.message.str
                   ELSE UpstreamErrorMessage(up.status)
    IN  Reply(up.status, ErrorBodyWithDetails(message, data))

\* CompareRouteFinish passing a null body through (no "?? { ok: false, ... }").
CompareRouteFinishNoFallback(up) ==
    IF up.kind = "reject" THEN ServerError("fetch failed")
    ELSE
      LET data == ParseUpstreamText(up.text)
      IN  IF ~StatusOk(up.status) THEN UpstreamFailureReply(up, data)
          ELSE Reply(200, data)

\* From the settled fetch to the response.
CompareRouteFinish(up) ==
    IF up.kind = "reject" THEN ServerError("fetch failed")
    ELSE
      LET data == ParseUpstreamText(up.text)
      IN  IF ~StatusOk(up.status) THEN UpstreamFailureReply(up, data)
          ELSE Reply(200, IF data.type = "null" THEN ErrorBody("Empty upstream response")
                          ELSE data)

(***************************************************************************)
(* POST /api/bulk-compare                                                  *)
(***************************************************************************)
\* `submission-${index + 1}`
DefaultSubmissionId(index) ==
    <<"s", "u", "b", "m", "i", "s", "s", "i", "o", "n", "-">> \o Decimal(index + 1)

\* The .map callback; index is 0-based.
SanitizeEntry(entry, index) ==
    [id |-> IF entry.id.type = "string" /\ ~IsBlank(entry.id.s)
            THEN Trim(entry.id.s) ELSE DefaultSubmissionId(index),
     code |-> StringOr(entry.code, <<>>)]

\* sanitizeSubmissions dropping the blank entries before it numbers the rest.
sanitizeSubmissionsFilterFirst(input) ==
    IF ~input.isArray THEN <<>>
    ELSE LET kept == SelectSeq(input.items, LAMBDA e : Len(Trim(StringOr(e.code, <<>>))) > 0)
         IN  [i \in 1..Len(kept) |-> SanitizeEntry(kept[i], i - 1)]

sanitizeSubmissions(input) ==
    IF ~input.isArray THEN <<>>
    ELSE LET mapped == [i \in 1..Len(input.items) |-> SanitizeEntry(input.items[i], i - 1)]
         IN  SelectSeq(mapped, LAMBDA e : Len(Trim(e.code)) > 0)

BulkRouteReceive(body) ==
    IF ~body.parses THEN ServerError("Unexpected token in JSON")
    ELSE
      LET language == StringOr(body.language, Python)
          reference_code == StringOr(body.reference_code, <<>>)
          submissions == sanitizeSubmissions(body.submissions)
      IN  IF IsBlank(reference_code)
          THEN Reply(400, ErrorBody("reference_code is required"))
          ELSE IF Len(submissions) = 0
          THEN Reply(400, ErrorBody("At least one submission is required"))
          ELSE Fetch([language |-> language, reference_code |-> reference_code,
                      submission_code |-> <<>>, submissions |-> submissions])

BulkRouteFinish(up) ==
    IF up.kind = "reject" THEN ServerError("fetch failed")
    ELSE
      LET data == ParseUpstreamText(up.text)
      IN  IF ~StatusOk(up.status) THEN UpstreamFailureReply(up, data)
          ELSE IF IsFalsyJson(data) THEN Reply(500, ErrorBody("Empty upstream response"))
          ELSE Reply(200, data)

RouteReceive(route, body) ==
    IF route = "compare" THEN CompareRouteReceive(body) ELSE BulkRouteReceive(body)

RouteFinish(route, up) ==
    IF route = "compare" THEN CompareRouteFinish(up) ELSE BulkRouteFinish(up)

(***************************************************************************)
(* The upstream analysis service (environment): how a fetch of it settles. *)
(***************************************************************************)
Rejected == [kind |-> "reject", status |-> 0, text |-> EmptyText]

UpstreamResponse(status, text) == [kind |-> "response", status |-> status, text |-> text]

NotSettled == [kind |-> "none", status |-> 0, text |-> EmptyText]

UpstreamStatuses == {200, 404, 500}

UpstreamMessages == {NoMessage, Message(""), Message("quota exceeded"), EmptyArrayMessage}

\* A result entry of a bulk response.
BulkResult(id, plagiarism, quality) ==
    [id |-> id, plagiarism_score |-> plagiarism, quality_score |-> quality]

UpstreamResultLists ==
    { NotArray,
      Array(<<BulkResult(<<"a">>, Some(80), Some(20))>>),
      Array(<<BulkResult(<<"a">>, Some(20), Some(80)), BulkResult(<<"b">>, Some(80), Null)>>) }

UpstreamScores == {Some(1), Some(87)}

\* Bodies the service may answer a request of the given route with.
UpstreamTexts(route) ==
    {EmptyText, GarbageText, JsonText(JsonNull), JsonText(JsonFalsy)}
    \cup {JsonText(JsonObject(FALSE, m, NotArray, Null)) : m \in UpstreamMessages}
    \cup (IF route = "compare"
          THEN {JsonText(JsonObject(TRUE, NoMessage, NotArray, sc)) : sc \in UpstreamScores}
          ELSE {JsonText(JsonObject(TRUE, NoMessage, r, Null)) : r \in UpstreamResultLists})

UpstreamResults(route) ==
    {Rejected} \cup {UpstreamResponse(st, t) : st \in UpstreamStatuses, t \in UpstreamTexts(route)}

\* The answers followed through the client: one of each kind the client tells apart.
AnalyzeUpstreamResults(route) ==
    { Rejected,
      UpstreamResponse(200, EmptyText),
      UpstreamResponse(200, GarbageText),
      UpstreamResponse(200, JsonText(JsonObject(FALSE, EmptyArrayMessage, NotArray, Null))),
      UpstreamResponse(200, JsonText(JsonObject(FALSE, Message(""), NotArray, Null))),
      UpstreamResponse(500, JsonText(JsonObject(FALSE, Message("quota exceeded"), NotArray, Null))) }
    \cup (IF route = "compare"
          THEN {UpstreamResponse(200, JsonText(JsonObject(TRUE, NoMessage, NotArray, sc))) :
                  sc \in UpstreamScores}
          ELSE {UpstreamResponse(200, JsonText(JsonObject(TRUE, NoMessage, r, Null))) :
                  r \in UpstreamResultLists})

(***************************************************************************)
(* HTTP exchanges.  net is a sequence; each element is one request to a    *)
(* proxy route, followed through the route handler and back.               *)
(***************************************************************************)
\* What the caller's fetch of the route settles with.
NoResult == [kind |-> "none", status |-> 0, isJson |-> FALSE, body |-> JsonNull]

FetchRejected == [kind |-> "reject", status |-> 0, isJson |-> FALSE, body |-> JsonNull]

\* The route's NextResponse.json(body, { status }).
RouteResponse(r) == [kind |-> "response", status |-> r.status, isJson |-> TRUE, body |-> r.body]

\* An answer that is not the route's: an HTML error page of the hosting gateway.
GatewayPage == [kind |-> "response", status |-> 502, isJson |-> FALSE, body |-> JsonNull]

\* run is the handleAnalyze invocation that sent the request, 0 for another client.
Exchange(run, route, body) ==
    [run |-> run, route |-> route, body |-> body, stage |-> "toProxy",
     upstreamRequest |-> NoRequest, fetches |-> 0, up |-> NotSettled, result |-> NoResult]

\* A request with no body: what is kept of an exchange once its caller has the answer.
NoBody ==
    [parses |-> FALSE, language |-> Undefined, reference_code |-> Undefined,
     submission_code |-> Undefined, submissions |-> NotArray]

Closed(x) ==
    [x EXCEPT !.stage = "closed", !.body = NoBody, !.upstreamRequest = NoRequest,
              !.up = NotSettled, !.result = NoResult]

\* The route handler runs up to its first await of the upstream fetch.
ProxyReceive(i) ==
    /\ i \in 1..Len(net)
    /\ net[i].stage = "toProxy"
    /\ LET r == RouteReceive(net[i].route, net[i].body)
       IN  net' = [net EXCEPT ![i] =
                     IF r.act = "fetch"
                     THEN [@ EXCEPT !.stage = "toUpstream", !.upstreamRequest = r.fetch,
                                    !.fetches = @ + 1]
                     ELSE [@ EXCEPT !.stage = "toClient", !.result = RouteResponse(r)]]
    /\ UNCHANGED <<uiVars, idVars, layoutVars, placeholderVars, viewVars>>

\* ProxyFinish fetching a second time after a rejected fetch.
ProxyFinishRetrying(i, up) ==
    /\ i \in 1..Len(net)
    /\ net[i].stage = "toUpstream"
    /\ net' = [net EXCEPT ![i] =
                 IF up.kind = "reject" /\ net[i].fetches < 2
                 THEN [@ EXCEPT !.fetches = @ + 1]
                 ELSE [@ EXCEPT !.stage = "toClient", !.up = up,
                                !.result = RouteResponse(RouteFinish(net[i].route, up))]]
    /\ UNCHANGED <<uiVars, idVars, layoutVars, placeholderVars, viewVars>>

\* The awaited upstream fetch settles (the service answers, or the fetch fails) and
\* the route handler resumes and answers.
ProxyFinish(i, up) ==
    /\ i \in 1..Len(net)
    /\ net[i].stage = "toUpstream"
    /\ net' = [net EXCEPT ![i] =
                 [@ EXCEPT !.stage = "toClient", !.up = up,
                           !.result = RouteResponse(RouteFinish(net[i].route, up))]]
    /\ UNCHANGED <<uiVars, idVars, layoutVars, placeholderVars, viewVars>>

\* The request never reaches the route: the caller's fetch rejects, or a gateway answers.
NetworkFault(i) ==
    /\ i \in 1..Len(net)
    /\ net[i].stage = "toProxy"
    /\ \E res \in {FetchRejected, GatewayPage} :
         net' = [net EXCEPT ![i] = [@ EXCEPT !.stage = "toClient", !.result = res]]
    /\ UNCHANGED <<uiVars, idVars, layoutVars, placeholderVars, viewVars>>

(***************************************************************************)
(* An arbitrary HTTP client of the two routes, one request at a time.      *)
(***************************************************************************)
RequestBody(language, reference_code, submission_code, submissions) ==
    [parses |-> TRUE, language |-> language, reference_code |-> reference_code,
     submission_code |-> submission_code, submissions |-> submissions]

\* A body request.json() throws on.
UnparsableBody == [RequestBody(Undefined, Undefined, Undefined, NotArray) EXCEPT !.parses = FALSE]

PostedStrings == {<<>>, <<" ">>, <<"a">>, <<" ", "a", " ">>}

PostedFields == {Undefined, NonString} \cup {Str(s) : s \in PostedStrings}

PostedLanguages == {Undefined, Str(Python)}

PostedEntries ==
    [id : {Undefined, NonString, Str(<<" ">>), Str(<<" ", "b", " ">>)},
     code : {Undefined, Str(<<" ">>), Str(<<"a">>)}]

RECURSIVE SeqsUpTo(_, _)
SeqsUpTo(S, n) ==
    IF n = 0 THEN {<<>>}
    ELSE LET shorter == SeqsUpTo(S, n - 1)
         IN  shorter \cup {Append(q, e) : q \in {t \in shorter : Len(t) = n - 1}, e \in S}

PostedSubmissions == {NotArray} \cup {Array(q) : q \in SeqsUpTo(PostedEntries, MaxEntries)}

PostedBodies(route) ==
    {UnparsableBody}
    \cup (IF route = "compare"
          THEN {RequestBody(l, r, c, NotArray) :
                  l \in PostedLanguages, r \in PostedFields, c \in PostedFields}
          ELSE {RequestBody(l, r, Undefined, q) :
                  l \in PostedLanguages, r \in {Undefined, Str(<<" ">>), Str(<<"a">>)},
                  q \in PostedSubmissions})

ExternalPost ==
    /\ net = <<>>
    /\ \E route \in {"compare", "bulk"} : \E body \in PostedBodies(route) :
         net' = <<Exchange(0, route, body)>>
    /\ UNCHANGED <<uiVars, idVars, layoutVars, placeholderVars, viewVars>>

ExternalReceive(i) ==
    /\ i \in 1..Len(net)
    /\ net[i].run = 0
    /\ net[i].stage = "toClient"
    /\ net' = <<>>
    /\ UNCHANGED <<uiVars, idVars, layoutVars, placeholderVars, viewVars>>

(***************************************************************************)
(* CheckerScreen: module-level helpers.                                    *)
(***************************************************************************)
DefaultSnippetA == <<"a">>

DefaultSnippetB == <<"b">>

Max(a, b) == IF a >= b THEN a ELSE b

Min(a, b) == IF a <= b THEN a ELSE b

clampPercent(value) == Max(0, Min(100, value))

\* value is Null (not a finite number) or <<n>>.
normalizePercent(value) ==
    IF value = Null THEN Null
    ELSE LET numeric == value[1]
             percent == IF numeric <= 1 THEN numeric * 100 ELSE numeric
         IN  Some(clampPercent(percent))

\* a ?? b
Coalesce(a, b) == IF a = Null THEN b ELSE a[1]

getMetricScore(result, metric) ==
    IF metric = "plagiarism" THEN Some(result.similarityPercent)
    ELSE result.qualityScore

\* The comparator's key: a missing score sorts as -1.
SortKey(result, sortBy) == Coalesce(getMetricScore(result, sortBy), -1)

\* Array.prototype.sort is stable: equal keys keep their order.
RECURSIVE InsertByScore(_, _, _)
InsertByScore(e, sorted, sortBy) ==
    IF sorted = <<>> THEN <<e>>
    ELSE IF SortKey(Head(sorted), sortBy) >= SortKey(e, sortBy)
         THEN <<Head(sorted)>> \o InsertByScore(e, Tail(sorted), sortBy)
         ELSE <<e>> \o sorted

RECURSIVE sortBulkResults(_, _)
sortBulkResults(results, sortBy) ==
    IF results = <<>> THEN <<>>
    ELSE InsertByScore(results[Len(results)],
                       sortBulkResults(SubSeq(results, 1, Len(results) - 1), sortBy), sortBy)

mapBulkResults(results) ==
    [i \in 1..Len(results) |->
        [id |-> results[i].id,
         similarityPercent |-> Coalesce(normalizePercent(results[i].plagiarism_score), 0),
         qualityScore |-> normalizePercent(results[i].quality_score)]]

mapToAnalysis(response) ==
    LET percentRaw == Coalesce(response.plagiarism_score, 0)
        similarityPercent == IF percentRaw <= 1 THEN percentRaw * 100 ELSE percentRaw
    IN  [similarityPercent |-> clampPercent(similarityPercent)]

(***************************************************************************)
(* coerceAst.  A parsed JSON value is null, a primitive (falsy: 0, false,  *)
(* ""; or truthy), an array of values, or an object.  Of an object the     *)
(* model keeps the members coerceAst reads: type, kind, name, value,       *)
(* children, body, args; when the object has none of type, kind and name,  *)
(* items holds the values of all its members in key order.                 *)
(*                                                                         *)
(* A member read for the node's type or value is absent, null, a string, a *)
(* number, or an object; String(v) of an object v throws a TypeError when  *)
(* v has a member named "toString" that is not a function, as a parsed     *)
(* {"toString": 1} has.                                                    *)
(***************************************************************************)
AbsentMember ==
    [in |-> FALSE, nullish |-> TRUE, isString |-> FALSE, prints |-> TRUE, str |-> ""]

NullMember ==
    [in |-> TRUE, nullish |-> TRUE, isString |-> FALSE, prints |-> TRUE, str |-> ""]

StringMember(text) ==
    [in |-> TRUE, nullish |-> FALSE, isString |-> TRUE, prints |-> TRUE, str |-> text]

\* The number 7.
NumberMember ==
    [in |-> TRUE, nullish |-> FALSE, isString |-> FALSE, prints |-> TRUE, str |-> "7"]

\* The object {"toString": 1}.
ShadowedToStringMember ==
    [in |-> TRUE, nullish |-> FALSE, isString |-> FALSE, prints |-> FALSE, str |-> ""]

AstJson(k, truthy, items, labels, children, body, args) ==
    [k |-> k, truthy |-> truthy, items |-> items, type |-> labels.type, kind |-> labels.kind,
     name |-> labels.name, value |-> labels.value, children |-> children, body |-> body,
     args |-> args]

NoLabels ==
    [type |-> AbsentMember, kind |-> AbsentMember, name |-> AbsentMember, value |-> AbsentMember]

AstNull == AstJson("null", FALSE, <<>>, NoLabels, Null, Null, Null)

AstPrimitive(truthy) == AstJson("primitive", truthy, <<>>, NoLabels, Null, Null, Null)

AstArray(items) == AstJson("array", TRUE, items, NoLabels, Null, Null, Null)

AstObject(labels, children, body, args, items) ==
    AstJson("object", TRUE, items, labels, children, body, args)

\* "type" in input || "name" in input || "kind" in input
hasAstIdentity(input) == input.type.in \/ input.name.in \/ input.kind.in

\* a ?? b, for members that are absent (Null) or hold a JSON value.
Nullish(a, b) == IF a = Null \/ a = Some(AstNull) THEN b ELSE a

\* The outcome of a call: it threw, or it returned nodes.
AstThrew == [threw |-> TRUE, nodes |-> <<>>]

AstReturned(nodes) == [threw |-> FALSE, nodes |-> nodes]

RECURSIVE coerceAst(_)
RECURSIVE coerceAstNode(_)
RECURSIVE CoerceEach(_)
RECURSIVE CoerceValues(_)

\* input.map(coerceAstNode).filter(Boolean)
CoerceEach(items) ==
    IF items = <<>> THEN AstReturned(<<>>)
    ELSE LET first == coerceAstNode(Head(items))
         IN  IF first.threw THEN AstThrew
             ELSE LET rest == CoerceEach(Tail(items))
                  IN  IF rest.threw THEN AstThrew ELSE AstReturned(first.nodes \o rest.nodes)

\* Object.values(record).flatMap((value) => coerceAst(value)).filter(Boolean)
CoerceValues(values) ==
    IF values = <<>> THEN AstReturned(<<>>)
    ELSE LET first == coerceAst(Head(values))
         IN  IF first.threw THEN AstThrew
             ELSE LET rest == CoerceValues(Tail(values))
                  IN  IF rest.threw THEN AstThrew ELSE AstReturned(first.nodes \o rest.nodes)

coerceAst(input) ==
    IF input.k = "null" \/ ~input.truthy THEN AstReturned(<<>>)
    ELSE IF input.k = "array" THEN CoerceEach(input.items)
    ELSE IF input.k = "object"
    THEN IF hasAstIdentity(input) THEN coerceAstNode(input) ELSE CoerceValues(input.items)
    ELSE AstReturned(<<>>)

\* Returns no node (null) or one node.
coerceAstNode(input) ==
    IF input.k \notin {"array", "object"} THEN AstReturned(<<>>)
    ELSE
      LET typeSource == IF ~input.type.nullish THEN input.type
                        ELSE IF ~input.kind.nullish THEN input.kind
                        ELSE IF ~input.name.nullish THEN input.name
                        ELSE StringMember("Node")
          value == IF input.value.isString THEN Some(input.value.str)
                   ELSE IF input.name.isString THEN Some(input.name.str)
                   ELSE Null
          childrenSource == Nullish(input.children, Nullish(input.body, input.args))
      IN  IF ~typeSource.prints THEN AstThrew
          ELSE LET children == IF childrenSource = Null THEN AstReturned(<<>>)
                               ELSE coerceAst(childrenSource[1])
               IN  IF children.threw THEN AstThrew
                   ELSE AstReturned(<<[type |-> typeSource.str, value |-> value,
                                       hasChildren |-> Len(children.nodes) > 0,
                                       children |-> children.nodes]>>)

(***************************************************************************)
(* Bulk submission ids.                                                    *)
(***************************************************************************)
Submission == <<"S", "u", "b", "m", "i", "s", "s", "i", "o", "n">>

\* Index of the last "." of name, 0 when it has none.
RECURSIVE LastDot(_)
LastDot(name) ==
    IF name = <<>> THEN 0
    ELSE IF name[Len(name)] = "." THEN Len(name)
    ELSE LastDot(SubSeq(name, 1, Len(name) - 1))

\* name.replace(/\.[^/.]+$/, ""): a final "." followed by one or more characters
\* other than "/" and "." is removed with what follows it.
StripExtension(name) ==
    LET dot == LastDot(name)
    IN  IF /\ dot > 0
           /\ dot < Len(name)
           /\ \A i \in (dot + 1)..Len(name) : name[i] # "/"
        THEN SubSeq(name, 1, dot - 1)
        ELSE name

deriveSubmissionIdFromFilename(name) ==
    LET withoutExtension == StripExtension(name)
        normalized == ReplaceWhitespaceRuns(Trim(withoutExtension))
    IN  IF normalized = <<>> THEN Submission ELSE normalized

\* `${counter}/${candidate}`
Prefixed(counter, candidate) == Decimal(counter) \o <<"/">> \o candidate

\* The while loop: the first counter from `counter` on whose prefixed id is free.
RECURSIVE FirstFreeCounter(_, _, _)
FirstFreeCounter(counter, candidate, registry) ==
    IF Prefixed(counter, candidate) \in registry
    THEN FirstFreeCounter(counter + 1, candidate, registry)
    ELSE counter

\* reserveUniqueSubmissionId without the while loop: a taken id always gets "1/".
reserveUniqueSubmissionIdFirstPrefix(baseId, registry) ==
    LET candidate == IF baseId = <<>> THEN Submission ELSE baseId
    IN  IF candidate \notin registry THEN candidate ELSE Prefixed(1, candidate)

\* Returns the id; the caller adds it to the registry.
reserveUniqueSubmissionId(baseId, registry) ==
    LET candidate == IF baseId = <<>> THEN Submission ELSE baseId
    IN  IF candidate \notin registry THEN candidate
        ELSE Prefixed(FirstFreeCounter(1, candidate, registry), candidate)

\* The forEach over Object.entries(fileMap), entry by entry.
RECURSIVE BuildPayloadFrom(_, _, _)
BuildPayloadFrom(entries, registry, out) ==
    IF entries = <<>> THEN out
    ELSE LET filename == Head(entries).name
             code == Head(entries).code
         IN  IF IsBlank(code) THEN BuildPayloadFrom(Tail(entries), registry, out)
             ELSE LET baseId == deriveSubmissionIdFromFilename(filename)
                      uniqueId == reserveUniqueSubmissionId(baseId, registry)
                  IN  BuildPayloadFrom(Tail(entries), registry \cup {uniqueId},
                                       Append(out, [id |-> uniqueId, code |-> code]))

\* buildBulkSubmissionPayload without `if (!code.trim()) return`.
buildBulkSubmissionPayloadKeepingBlank(files) ==
    [i \in 1..Len(files) |->
       [id |-> Prefixed(i, deriveSubmissionIdFromFilename(files[i].name)),
        code |-> files[i].code]]

buildBulkSubmissionPayload(files) == BuildPayloadFrom(files, {}, <<>>)

(***************************************************************************)
(* lib/apiPlaceholders: compareCodes and bulkCompare, from the settled     *)
(* fetch on.  The outcome is a returned body or a thrown error's message.  *)
(***************************************************************************)
Returned(data) == [threw |-> FALSE, message |-> "", data |-> data]

Threw(message) == [threw |-> TRUE, message |-> message, data |-> JsonNull]

\* new Error(data?.message || fallback).message
ErrorMessageOr(data, fallback) ==
    IF data.message.truthy THEN data.message.str ELSE fallback

compareCodes(res) ==
    IF res.kind = "reject" THEN Threw("Failed to fetch")
    ELSE IF ~res.isJson THEN Threw("Unable to parse analysis response")
    ELSE IF ~StatusOk(res.status) \/ ~res.body.ok
         THEN Threw(ErrorMessageOr(res.body, "Analysis failed"))
    ELSE Returned(res.body)

bulkCompare(res) ==
    IF res.kind = "reject" THEN Threw("Failed to fetch")
    ELSE IF ~res.isJson THEN Threw("Unable to parse bulk analysis response")
    ELSE IF ~StatusOk(res.status) \/ ~res.body.ok
         THEN Threw(ErrorMessageOr(res.body, "Bulk analysis failed"))
    ELSE Returned(res.body)

(***************************************************************************)
(* CheckerScreen: derived values and effects.                              *)
(***************************************************************************)
\* useMemo: sortedBulkResults
SortedBulkResults(results, sortBy) ==
    IF results = Null THEN <<>> ELSE sortBulkResults(results[1], sortBy)

sortedBulkResults == SortedBulkResults(bulkResults, bulkSortBy)

\* if (selectedBulkId), current && ...: an id that is neither null nor "".
TruthyId(id) == id # Null /\ id[1] # <<>>

\* useMemo: selectedBulkResult (Null or <<entry>>)
selectedBulkResult ==
    IF sortedBulkResults = <<>> THEN Null
    ELSE IF TruthyId(selectedBulkId)
            /\ \E i \in 1..Len(sortedBulkResults) : sortedBulkResults[i].id = selectedBulkId[1]
         THEN LET i == CHOOSE j \in 1..Len(sortedBulkResults) :
                         /\ sortedBulkResults[j].id = selectedBulkId[1]
                         /\ \A k \in 1..(j - 1) : sortedBulkResults[k].id # selectedBulkId[1]
              IN  Some(sortedBulkResults[i])
         ELSE Some(sortedBulkResults[1])

HasKey(files, name) == \E i \in 1..Len(files) : files[i].name = name

\* No effect on [uploadedFiles]: the selection stays as the handler left it.
SelectedFilenameNoEffect(current, files) == current

\* The effect on [uploadedFiles]: the selection after it has run.
SelectedFilenameEffect(current, files) ==
    IF current # Null /\ HasKey(files, current[1]) THEN current
    ELSE IF files = <<>> THEN Null ELSE Some(files[1].name)

\* The timer of the effect on [sortedBulkResults] fires.
SelectionTimerFires ==
    /\ selTimer
    /\ selTimer' = FALSE
    /\ selectedBulkId' =
         IF sortedBulkResults = <<>> THEN Null
         ELSE IF TruthyId(selectedBulkId)
                 /\ \E i \in 1..Len(sortedBulkResults) :
                      sortedBulkResults[i].id = selectedBulkId[1]
              THEN selectedBulkId
              ELSE Some(sortedBulkResults[1].id)
    /\ UNCHANGED <<mode, codeA, codeB, uploadedFiles, isAnalyzing, analysis, bulkResults,
                   bulkSortBy, errorMessage, selectedFilename, uploadError, runs, uploads,
                   net, idVars, layoutVars, placeholderVars, viewVars>>

(***************************************************************************)
(* CheckerScreen: handleAnalyze.                                           *)
(***************************************************************************)
\* state: "pending" while the request is awaited, then "ok" or "failed" (the catch
\* block ran); req: the index in net of the request it sent, 0 when it sent none.
Run(runMode, state, req) == [mode |-> runMode, state |-> state, req |-> req]

\* The payload of the request handleAnalyze sends in the given mode.
AnalyzeRequest ==
    IF mode = "single"
    THEN RequestBody(Str(Python), Str(codeA), Str(codeB), NotArray)
    ELSE RequestBody(Str(Python), Str(codeA), Undefined,
                     Array([i \in 1..Len(buildBulkSubmissionPayload(uploadedFiles)) |->
                              LET e == buildBulkSubmissionPayload(uploadedFiles)[i]
                              IN  [id |-> Str(e.id), code |-> Str(e.code)]]))

\* The error thrown before anything is sent, "" when the inputs pass.
ValidationError ==
    IF IsBlank(codeA) THEN "Reference code cannot be empty"
    ELSE IF mode = "single"
    THEN (IF IsBlank(codeB) THEN "Submission code cannot be empty" ELSE "")
    ELSE IF Len(buildBulkSubmissionPayload(uploadedFiles)) = 0
    THEN "Upload at least one Python file to compare"
    ELSE ""

\* The click: the handler runs to its first await, or to its end when validation throws.
AnalyzeClick ==
    /\ Len(runs) < MaxRuns
    /\ IF ValidationError # ""
       THEN /\ runs' = Append(runs, Run(mode, "failed", 0))
            /\ errorMessage' = Some(ValidationError)
            /\ isAnalyzing' = FALSE
            /\ net' = net
       ELSE /\ runs' = Append(runs, Run(mode, "pending", Len(net) + 1))
            /\ errorMessage' = Null
            /\ isAnalyzing' = TRUE
            /\ net' = Append(net, Exchange(Len(runs) + 1,
                                           IF mode = "single" THEN "compare" ELSE "bulk",
                                           AnalyzeRequest))
    /\ UNCHANGED <<mode, codeA, codeB, uploadedFiles, analysis, bulkResults, bulkSortBy,
                   selectedBulkId, selectedFilename, uploadError, selTimer, uploads,
                   idVars, layoutVars, placeholderVars, viewVars>>

\* AnalyzeFails also discarding the displayed single-compare result.
AnalyzeFailsClearing(r, message) ==
    /\ runs' = [runs EXCEPT ![r] = [@ EXCEPT !.state = "failed"]]
    /\ errorMessage' = Some(message)
    /\ isAnalyzing' = FALSE
    /\ analysis' = Null
    /\ UNCHANGED <<bulkResults, bulkSortBy, selectedBulkId, selTimer>>

\* AnalyzeFails without the finally block.
AnalyzeFailsStillAnalyzing(r, message) ==
    /\ runs' = [runs EXCEPT ![r] = [@ EXCEPT !.state = "failed"]]
    /\ errorMessage' = Some(message)
    /\ UNCHANGED <<isAnalyzing, analysis, bulkResults, bulkSortBy, selectedBulkId, selTimer>>

\* catch (error) { setErrorMessage(...) } finally { setIsAnalyzing(false) }
AnalyzeFails(r, message) ==
    /\ runs' = [runs EXCEPT ![r] = [@ EXCEPT !.state = "failed"]]
    /\ errorMessage' = Some(message)
    /\ isAnalyzing' = FALSE
    /\ UNCHANGED <<analysis, bulkResults, bulkSortBy, selectedBulkId, selTimer>>

\* SingleSucceeds leaving the bulk results of an earlier run in place.
SingleSucceedsKeepingBulk(r, data) ==
    /\ analysis' = Some(mapToAnalysis(data))
    /\ runs' = [runs EXCEPT ![r] = [@ EXCEPT !.state = "ok"]]
    /\ isAnalyzing' = FALSE
    /\ UNCHANGED <<bulkResults, selTimer, bulkSortBy, selectedBulkId, errorMessage>>

\* setAnalysis(mapToAnalysis(response)); setBulkResults(null); return; and the finally
\* block.  The selection effect is scheduled when sortedBulkResults changes.
SingleSucceeds(r, data) ==
    /\ analysis' = Some(mapToAnalysis(data))
    /\ bulkResults' = Null
    /\ selTimer' = (selTimer \/ bulkResults # Null)
    /\ runs' = [runs EXCEPT ![r] = [@ EXCEPT !.state = "ok"]]
    /\ isAnalyzing' = FALSE
    /\ UNCHANGED <<bulkSortBy, selectedBulkId, errorMessage>>

\* BulkSucceeds without setBulkSortBy("plagiarism") and setSelectedBulkId(null).
BulkSucceedsKeepingControls(r, results) ==
    /\ bulkResults' = Some(mapBulkResults(results))
    /\ analysis' = Null
    /\ selTimer' = TRUE
    /\ runs' = [runs EXCEPT ![r] = [@ EXCEPT !.state = "ok"]]
    /\ isAnalyzing' = FALSE
    /\ UNCHANGED <<bulkSortBy, selectedBulkId, errorMessage>>

\* setBulkResults(mapBulkResults(response.results)); setBulkSortBy("plagiarism");
\* setSelectedBulkId(null); setAnalysis(null); and the finally block.
BulkSucceeds(r, results) ==
    /\ bulkResults' = Some(mapBulkResults(results))
    /\ bulkSortBy' = "plagiarism"
    /\ selectedBulkId' = Null
    /\ analysis' = Null
    /\ selTimer' = TRUE
    /\ runs' = [runs EXCEPT ![r] = [@ EXCEPT !.state = "ok"]]
    /\ isAnalyzing' = FALSE
    /\ UNCHANGED errorMessage

\* The awaited request of run r settles and the handler runs to its end.
AnalyzeSettle(r) ==
    /\ r \in 1..Len(runs)
    /\ runs[r].state = "pending"
    /\ net[runs[r].req].stage = "toClient"
    /\ net' = [net EXCEPT ![runs[r].req] = Closed(@)]
    /\ LET res == net[runs[r].req].result
       IN  IF runs[r].mode = "single"
           THEN LET response == compareCodes(res)
                IN  IF response.threw THEN AnalyzeFails(r, response.message)
                    ELSE SingleSucceeds(r, response.data)
           ELSE LET response == bulkCompare(res)
                IN  IF response.threw THEN AnalyzeFails(r, response.message)
                    ELSE IF ~response.data.results.isArray
                    THEN AnalyzeFails(r, "Cannot read properties of undefined (reading 'map')")
                    ELSE BulkSucceeds(r, response.data.results.items)
    /\ UNCHANGED <<mode, codeA, codeB, uploadedFiles, selectedFilename, uploadError, uploads,
                   idVars, layoutVars, placeholderVars, viewVars>>

(***************************************************************************)
(* CheckerScreen: the other event handlers.                                *)
(***************************************************************************)
EditorTextsA == {<<" ">>, DefaultSnippetA}

EditorTextsB == {<<" ">>, DefaultSnippetB}

\* onClick={() => setMode(...)}
SetMode(m) ==
    /\ m \in {"single", "bulk"}
    /\ m # mode
    /\ mode' = m
    /\ UNCHANGED <<codeA, codeB, uploadedFiles, isAnalyzing, analysis, bulkResults,
                   bulkSortBy, selectedBulkId, errorMessage, selectedFilename, uploadError,
                   runs, selTimer, uploads, net, idVars, layoutVars, placeholderVars, viewVars>>

\* The reference editor's setCode.
SetCodeA(text) ==
    /\ text # codeA
    /\ codeA' = text
    /\ UNCHANGED <<mode, codeB, uploadedFiles, isAnalyzing, analysis, bulkResults,
                   bulkSortBy, selectedBulkId, errorMessage, selectedFilename, uploadError,
                   runs, selTimer, uploads, net, idVars, layoutVars, placeholderVars, viewVars>>

\* The submission editor's setCode (rendered in single mode).
SetCodeB(text) ==
    /\ mode = "single"
    /\ text # codeB
    /\ codeB' = text
    /\ UNCHANGED <<mode, codeA, uploadedFiles, isAnalyzing, analysis, bulkResults,
                   bulkSortBy, selectedBulkId, errorMessage, selectedFilename, uploadError,
                   runs, selTimer, uploads, net, idVars, layoutVars, placeholderVars, viewVars>>

\* BulkResultsControls is rendered in bulk mode when there is a selected result.
BulkControlsShown ==
    /\ mode = "bulk"
    /\ bulkResults # Null
    /\ Len(bulkResults[1]) > 0
    /\ selectedBulkResult # Null

\* onSortChange={setBulkSortBy}; a changed sort recomputes sortedBulkResults.
SetBulkSortBy(option) ==
    /\ BulkControlsShown
    /\ option \in {"plagiarism", "quality"}
    /\ option # bulkSortBy
    /\ bulkSortBy' = option
    /\ selTimer' = TRUE
    /\ UNCHANGED <<mode, codeA, codeB, uploadedFiles, isAnalyzing, analysis, bulkResults,
                   selectedBulkId, errorMessage, selectedFilename, uploadError, runs,
                   uploads, net, idVars, layoutVars, placeholderVars, viewVars>>

\* onSelect={setSelectedBulkId}, with the id of a listed result.
SelectBulkResult(i) ==
    /\ BulkControlsShown
    /\ i \in 1..Len(sortedBulkResults)
    /\ selectedBulkId' = Some(sortedBulkResults[i].id)
    /\ selectedBulkId' # selectedBulkId
    /\ UNCHANGED <<mode, codeA, codeB, uploadedFiles, isAnalyzing, analysis, bulkResults,
                   bulkSortBy, errorMessage, selectedFilename, uploadError, runs, selTimer,
                   uploads, net, idVars, layoutVars, placeholderVars, viewVars>>

(***************************************************************************)
(* CheckerScreen: the uploaded-file list.                                  *)
(***************************************************************************)
File(name, code) == [name |-> name, code |-> code]

toLowerCase(c) ==
    CASE c = "P" -> "p" [] c = "Y" -> "y" [] c = "A" -> "a" [] c = "B" -> "b" [] OTHER -> c

\* file.name.endsWith(".py"), without toLowerCase.
IsPythonFileCaseSensitive(file) ==
    LET n == Len(file.name)
    IN  n >= 3 /\ SubSeq(file.name, n - 2, n) = <<".", "p", "y">>

\* file.name.toLowerCase().endsWith(".py")
IsPythonFile(file) ==
    LET n == Len(file.name)
    IN  /\ n >= 3
        /\ file.name[n - 2] = "."
        /\ toLowerCase(file.name[n - 1]) = "p"
        /\ toLowerCase(file.name[n]) = "y"

KeyIndex(files, name) == CHOOSE i \in 1..Len(files) : files[i].name = name

\* next[name] = code for every upload, in order: a known key keeps its place.
RECURSIVE MergeUploads(_, _)
MergeUploads(prev, ups) ==
    IF ups = <<>> THEN prev
    ELSE LET u == Head(ups)
         IN  MergeUploads(IF HasKey(prev, u.name)
                          THEN [prev EXCEPT ![KeyIndex(prev, u.name)].code = u.code]
                          ELSE Append(prev, u),
                          Tail(ups))

\* delete next[filename]
RemoveKey(files, name) == SelectSeq(files, LAMBDA f : f.name # name)

\* The change event of the file input: up to the await of the files' text.
handleBulkFileSelect(files) ==
    /\ mode = "bulk"
    /\ Len(files) > 0
    /\ LET pythonFiles == SelectSeq(files, IsPythonFile)
           rejectedCount == Len(files) - Len(pythonFiles)
       IN  /\ uploadError' = IF rejectedCount > 0
                             THEN Some("Only Python (.py) files can be uploaded.")
                             ELSE Null
           /\ uploads' = IF Len(pythonFiles) = 0 THEN uploads ELSE Append(uploads, pythonFiles)
    /\ UNCHANGED <<mode, codeA, codeB, uploadedFiles, isAnalyzing, analysis, bulkResults,
                   bulkSortBy, selectedBulkId, errorMessage, selectedFilename, runs,
                   selTimer, net, idVars, layoutVars, placeholderVars, viewVars>>

\* The texts of upload k have been read: the handler's continuation, then the
\* effect on [uploadedFiles].
UploadRead(k) ==
    /\ k \in 1..Len(uploads)
    /\ LET ups == uploads[k]
           next == MergeUploads(uploadedFiles, ups)
           chosen == IF selectedFilename # Null THEN selectedFilename
                     ELSE Some(ups[Len(ups)].name)
       IN  /\ uploadedFiles' = next
           /\ selectedFilename' = SelectedFilenameEffect(chosen, next)
    /\ uploads' = SubSeq(uploads, 1, k - 1) \o SubSeq(uploads, k + 1, Len(uploads))
    /\ UNCHANGED <<mode, codeA, codeB, isAnalyzing, analysis, bulkResults, bulkSortBy,
                   selectedBulkId, errorMessage, uploadError, runs, selTimer, net,
                   idVars, layoutVars, placeholderVars, viewVars>>

handleSelectUploadedFile(filename) ==
    /\ mode = "bulk"
    /\ HasKey(uploadedFiles, filename)
    /\ selectedFilename' = Some(filename)
    /\ selectedFilename' # selectedFilename
    /\ UNCHANGED <<mode, codeA, codeB, uploadedFiles, isAnalyzing, analysis, bulkResults,
                   bulkSortBy, selectedBulkId, errorMessage, uploadError, runs, selTimer,
                   uploads, net, idVars, layoutVars, placeholderVars, viewVars>>

\* The preview editor's setCode (rendered when a file is selected).
handleUploadedFileCodeChange(value) ==
    /\ mode = "bulk"
    /\ selectedFilename # Null
    /\ HasKey(uploadedFiles, selectedFilename[1])
    /\ uploadedFiles' =
         [uploadedFiles EXCEPT ![KeyIndex(uploadedFiles, selectedFilename[1])].code = value]
    /\ uploadedFiles' # uploadedFiles
    /\ selectedFilename' = SelectedFilenameEffect(selectedFilename, uploadedFiles')
    /\ UNCHANGED <<mode, codeA, codeB, isAnalyzing, analysis, bulkResults, bulkSortBy,
                   selectedBulkId, errorMessage, uploadError, runs, selTimer, uploads, net,
                   idVars, layoutVars, placeholderVars, viewVars>>

handleRemoveUploadedFile(filename) ==
    /\ mode = "bulk"
    /\ HasKey(uploadedFiles, filename)
    /\ uploadedFiles' = RemoveKey(uploadedFiles, filename)
    /\ selectedFilename' =
         SelectedFilenameEffect(IF selectedFilename = Some(filename) THEN Null
                                ELSE selectedFilename,
                                uploadedFiles')
    /\ UNCHANGED <<mode, codeA, codeB, isAnalyzing, analysis, bulkResults, bulkSortBy,
                   selectedBulkId, errorMessage, uploadError, runs, selTimer, uploads, net,
                   idVars, layoutVars, placeholderVars, viewVars>>

\* "Clear all" is rendered when the list is not empty.
handleClearUploadedFiles ==
    /\ mode = "bulk"
    /\ uploadedFiles # <<>>
    /\ uploadedFiles' = <<>>
    /\ selectedFilename' = SelectedFilenameEffect(Null, <<>>)
    /\ UNCHANGED <<mode, codeA, codeB, isAnalyzing, analysis, bulkResults, bulkSortBy,
                   selectedBulkId, errorMessage, uploadError, runs, selTimer, uploads, net,
                   idVars, layoutVars, placeholderVars, viewVars>>

(***************************************************************************)
(* The application: CheckerScreen in a browser, the two routes, upstream.  *)
(***************************************************************************)
APy == <<"a", ".", "p", "y">>

\* What the user picks in the file dialog.
PickedFiles == { <<File(APy, <<"x">>)>> }

InitScreen ==
    /\ mode = "single"
    /\ codeA = DefaultSnippetA
    /\ codeB = DefaultSnippetB
    /\ uploadedFiles = <<>>
    /\ selectedFilename = Null
    /\ uploadError = Null
    /\ isAnalyzing = FALSE
    /\ analysis = Null
    /\ bulkResults = Null
    /\ bulkSortBy = "plagiarism"
    /\ selectedBulkId = Null
    /\ errorMessage = Null
    /\ runs = <<>>
    /\ selTimer = TRUE
    /\ uploads = <<>>

\* The hooks' initial values: useState({ width: 900, height: 480 }),
\* useRef({ scale: 1, offsetX: 0, offsetY: 60 }), useRef(false), useRef({ x: 0, y: 0 });
\* numbers are fractions [n, d] in lowest terms.
ViewAtMount ==
    /\ viewRef = [scale |-> [n |-> 1, d |-> 1], offsetX |-> [n |-> 0, d |-> 1],
                  offsetY |-> [n |-> 60, d |-> 1]]
    /\ dimensions = [width |-> [n |-> 900, d |-> 1], height |-> [n |-> 480, d |-> 1]]
    /\ hasInteractedRef = FALSE
    /\ dragging = FALSE
    /\ pointerOrigin = [x |-> 0, y |-> 0]
    /\ observed = FALSE

InitIdle ==
    /\ net = <<>>
    /\ ViewAtMount
    /\ fileMap = <<>>
    /\ payload = Null
    /\ astInput = AstNull
    /\ coerced = Null
    /\ clock = 0
    /\ calls = <<>>
    /\ forest = <<>>
    /\ positions = Null

Init == InitScreen /\ InitIdle

UserEdits ==
    \/ \E m \in {"single", "bulk"} : SetMode(m)
    \/ \E t \in EditorTextsA : SetCodeA(t)
    \/ \E t \in EditorTextsB : SetCodeB(t)

UserFiles ==
    \/ \E files \in PickedFiles : Len(uploads) < MaxUploads /\ handleBulkFileSelect(files)
    \/ \E k \in 1..MaxUploads : UploadRead(k)
    \/ handleClearUploadedFiles

Network ==
    \E i \in DOMAIN net :
        \/ ProxyReceive(i)
        \/ \E up \in AnalyzeUpstreamResults(net[i].route) : ProxyFinish(i, up)
        \/ NetworkFault(i)

Next ==
    \/ AnalyzeClick
    \/ \E r \in 1..MaxRuns : AnalyzeSettle(r)
    \/ SelectionTimerFires
    \/ UserEdits
    \/ UserFiles
    \/ Network

Spec == Init /\ [][Next]_vars

(***************************************************************************)
(* The two routes under an arbitrary client.                               *)
(***************************************************************************)
InitProxy == Init

NextProxy ==
    \/ ExternalPost
    \/ \E i \in DOMAIN net :
          \/ ProxyReceive(i)
          \/ \E up \in UpstreamResults(net[i].route) : ProxyFinish(i, up)
          \/ ExternalReceive(i)

SpecProxy == InitProxy /\ [][NextProxy]_vars

(***************************************************************************)
(* Properties of the proxy routes, checked under SpecProxy.                *)
(***************************************************************************)
\* A request field that is a string with a character that is not white space.
NonBlankString(f) == f.type = "string" /\ \E k \in 1..Len(f.s) : f.s[k] # " "

\* Exchanges whose route handler has acted on a request body it could parse.
Handled(route) ==
    {i \in DOMAIN net : /\ net[i].route = route
                        /\ net[i].stage \in {"toUpstream", "toClient"}
                        /\ net[i].result.isJson \/ net[i].stage = "toUpstream"
                        /\ net[i].body.parses}

\* C5: /api/compare answers 400 with ok: false, and sends nothing upstream, when
\* reference_code or submission_code is absent, not a string, or blank after trimming.
C5_CompareRejectsBlankCodes ==
    \A i \in Handled("compare") :
        ~(NonBlankString(net[i].body.reference_code) /\ NonBlankString(net[i].body.submission_code))
        => /\ net[i].stage = "toClient"
           /\ net[i].result.status = 400
           /\ net[i].result.body.ok = FALSE
           /\ net[i].fetches = 0

C5_Witness ==
    \E i \in Handled("compare") :
        /\ NonBlankString(net[i].body.reference_code)
        /\ net[i].body.submission_code = Str(<<" ">>)
        /\ net[i].result.status = 400
        /\ net[i].fetches = 0

\* Positions (1-based) of the entries of a request array that have non-blank code.
KeptPositions(items) ==
    SelectSeq([i \in 1..Len(items) |-> i], LAMBDA i : NonBlankString(items[i].code))

\* The entry forwarded for the request entry at 1-based position n.
ForwardedEntry(entry, n) ==
    [id |-> IF NonBlankString(entry.id) THEN Trim(entry.id.s)
            ELSE <<"s", "u", "b", "m", "i", "s", "s", "i", "o", "n", "-">> \o Decimal(n),
     code |-> entry.code.s]

ForwardedSubmissions(submissions) ==
    IF ~submissions.isArray THEN <<>>
    ELSE LET kept == KeptPositions(submissions.items)
         IN  [k \in 1..Len(kept) |-> ForwardedEntry(submissions.items[kept[k]], kept[k])]

\* C6: /api/bulk-compare forwards exactly the submissions whose code is not blank, in
\* request order, each with a non-empty id: its own id trimmed, or "submission-<n>"
\* with n its 1-based position in the request array; it answers 400 and forwards
\* nothing when the reference code is blank or no submission remains.
C6_BulkForwardsSanitized ==
    \A i \in Handled("bulk") :
        LET expected == ForwardedSubmissions(net[i].body.submissions)
        IN  IF ~NonBlankString(net[i].body.reference_code) \/ expected = <<>>
            THEN /\ net[i].stage = "toClient"
                 /\ net[i].result.status = 400
                 /\ net[i].result.body.ok = FALSE
                 /\ net[i].fetches = 0
            ELSE /\ net[i].fetches = 1
                 /\ net[i].upstreamRequest.submissions = expected
                 /\ \A k \in 1..Len(expected) : net[i].upstreamRequest.submissions[k].id # <<>>

\* A request whose first entry is dropped and whose second entry has no usable id.
C6_Witness ==
    \E i \in Handled("bulk") :
        /\ net[i].fetches = 1
        /\ net[i].body.submissions.isArray
        /\ Len(net[i].body.submissions.items) = 2
        /\ ~NonBlankString(net[i].body.submissions.items[1].code)
        /\ ~NonBlankString(net[i].body.submissions.items[2].id)
        /\ Len(net[i].upstreamRequest.submissions) = 1
        /\ net[i].upstreamRequest.submissions[1].id = DefaultSubmissionId(1)

PendingRuns == {r \in DOMAIN runs : runs[r].state = "pending"}

\* Run r fails in this step: it is failed after it and was not before.
FailsNow(r) ==
    /\ r \in DOMAIN runs'
    /\ runs'[r].state = "failed"
    /\ (r \in DOMAIN runs => runs[r].state = "pending")

\* C1: every failing Analyze run ends with errorMessage set to one non-empty string.
C1_FailureSetsMessage ==
    [][(\E r \in 1..MaxRuns : FailsNow(r)) => (errorMessage' # Null /\ errorMessage'[1] # "")]_vars

\* C2: there is no retry.  Every request to a proxy route was sent by one Analyze run,
\* to the route of that run's mode; no run sent two; and no request to a route caused
\* more than one upstream fetch.
C2_NoRetry ==
    /\ \A i \in DOMAIN net :
          /\ net[i].run \in DOMAIN runs
          /\ runs[net[i].run].req = i
          /\ net[i].route = (IF runs[net[i].run].mode = "single" THEN "compare" ELSE "bulk")
          /\ net[i].fetches <= 1
    /\ \A i, j \in DOMAIN net : net[i].run = net[j].run => i = j

\* A run that failed after its one request had caused its one upstream fetch.
C2_Witness ==
    \E r \in DOMAIN runs :
        /\ runs[r].state = "failed"
        /\ runs[r].req # 0
        /\ net[runs[r].req].stage = "closed"
        /\ net[runs[r].req].fetches = 1
        /\ Len(net) = 1

\* C3: at any moment at most one Analyze run is between its start and its completion.
C3_OneRunInFlight == Cardinality(PendingRuns) <= 1

\* C4: a failing Analyze run changes only errorMessage and isAnalyzing: the results,
\* the sort order, the selection, both editors and the uploaded files stay as they were.
C4_FailureKeepsResults ==
    [][(\E r \in 1..MaxRuns : FailsNow(r)) =>
         UNCHANGED <<analysis, bulkResults, bulkSortBy, selectedBulkId, codeA, codeB,
                     uploadedFiles>>]_vars

\* A run has failed while the result of an earlier run is displayed.
C4_Witness ==
    \E r \in DOMAIN runs :
        /\ runs[r].state = "failed"
        /\ runs[r].req # 0
        /\ analysis # Null
        /\ errorMessage # Null

\* The upstream service answered the exchange 2xx with an empty or non-JSON body.
EmptyUpstreamAnswer(x) ==
    /\ x.up.kind = "response"
    /\ StatusOk(x.up.status)
    /\ x.up.text.text \in {"empty", "garbage"}

\* C8: when the upstream service answers 2xx with an empty body or a body that is not
\* JSON, the route's reply carries ok: false with a message, and the run ends failed
\* with errorMessage set and with analysis and bulkResults unchanged.
C8_EmptyUpstreamFails ==
    [][\A r \in DOMAIN runs :
         (/\ runs[r].state = "pending"
          /\ runs'[r].state # "pending"
          /\ EmptyUpstreamAnswer(net[runs[r].req]))
         => LET reply == net[runs[r].req].result
            IN  /\ reply.isJson
                /\ reply.body.type = "object"
                /\ reply.body.ok = FALSE
                /\ reply.body.message.type = "string"
                /\ reply.body.message.str # ""
                /\ runs'[r].state = "failed"
                /\ errorMessage' # Null
                /\ errorMessage'[1] # ""
                /\ UNCHANGED <<analysis, bulkResults>>]_vars

C8_Witness ==
    \E r \in DOMAIN runs :
        /\ runs[r].state = "failed"
        /\ runs[r].mode = "bulk"
        /\ errorMessage = Some("Empty upstream response")

(***************************************************************************)
(* buildBulkSubmissionPayload over uploaded-file maps.                     *)
(*                                                                         *)
(* The keys of uploadedFiles are the names of files the user picked and    *)
(* handleBulkFileSelect accepted: base names (no "/") that end in ".py",   *)
(* in the order they were first uploaded.                                  *)
(***************************************************************************)
DotPy == <<".", "p", "y">>

StemChars == {"a", " "}

UploadNames ==
    {stem \o DotPy : stem \in SeqsUpTo(StemChars, MaxStem)}
    \cup {<<"a", ".", "b">> \o DotPy, <<"a", ".">> \o DotPy}

UploadCodes == {<<"x">>, <<" ">>}

InitIds ==
    /\ InitScreen
    /\ net = <<>>
    /\ ViewAtMount
    /\ fileMap = <<>>
    /\ payload = Null
    /\ astInput = AstNull
    /\ coerced = Null
    /\ clock = 0
    /\ calls = <<>>
    /\ forest = <<>>
    /\ positions = Null

\* One more file is in the map, and the payload is built from the map.
BuildPayload(name, code) ==
    /\ Len(fileMap) < MaxFiles
    /\ ~HasKey(fileMap, name)
    /\ fileMap' = Append(fileMap, File(name, code))
    /\ payload' = Some(buildBulkSubmissionPayload(fileMap'))
    /\ UNCHANGED <<uiVars, net, layoutVars, placeholderVars, viewVars>>

NextIds == \E name \in UploadNames : \E code \in UploadCodes : BuildPayload(name, code)

SpecIds == InitIds /\ [][NextIds]_vars

\* The id that follows a file name: the last extension removed, trimmed,
\* white-space runs replaced by "_", "Submission" when nothing remains.
DerivedId(name) ==
    LET dots == {d \in 1..(Len(name) - 1) :
                   /\ name[d] = "."
                   /\ \A i \in (d + 1)..Len(name) : name[i] \notin {".", "/"}}
        stem == IF dots = {} THEN name ELSE SubSeq(name, 1, (CHOOSE d \in dots : TRUE) - 1)
        id == ReplaceWhitespaceRuns(Trim(stem))
    IN  IF id = <<>> THEN <<"S", "u", "b", "m", "i", "s", "s", "i", "o", "n">> ELSE id

\* The files of the map that are sent: those whose code is not blank.
SentFiles == SelectSeq(fileMap, LAMBDA f : \E k \in 1..Len(f.code) : f.code[k] # " ")

\* C9: buildBulkSubmissionPayload emits pairwise-distinct ids.  Each id is the one
\* derived from the file's name when no earlier entry has it, and otherwise that id
\* with the prefix "<n>/", n the smallest positive integer whose prefixed id no
\* earlier entry has.
C9_DistinctSubmissionIds ==
    payload # Null =>
        LET out == payload[1]
            taken(k) == {out[j].id : j \in 1..(k - 1)}
        IN  /\ Len(out) = Len(SentFiles)
            /\ \A j, k \in 1..Len(out) : out[j].id = out[k].id => j = k
            /\ \A k \in 1..Len(out) :
                 LET base == DerivedId(SentFiles[k].name)
                     free == {n \in 1..MaxFiles : Prefixed(n, base) \notin taken(k)}
                 IN  /\ out[k].code = SentFiles[k].code
                     /\ out[k].id = IF base \notin taken(k) THEN base
                                    ELSE Prefixed(CHOOSE n \in free : \A m \in free : n <= m, base)

\* Three files derive the same id: the third gets the prefix "2/".
C9_Witness ==
    /\ payload # Null
    /\ Len(payload[1]) = 3
    /\ payload[1][1].id = <<"a">>
    /\ payload[1][2].id = <<"1", "/", "a">>
    /\ payload[1][3].id = <<"2", "/", "a">>

(***************************************************************************)
(* ASTVisualizer: layoutForest.                                            *)
(*                                                                         *)
(* A node is [type, value, hasChildren, children]; hasChildren is FALSE    *)
(* when the node has no children member.  x is an exact fraction n/d.      *)
(***************************************************************************)
HORIZONTAL_GAP == 150

VERTICAL_GAP == 120

RECURSIVE GCD(_, _)
GCD(a, b) == IF b = 0 THEN a ELSE GCD(b, a % b)

Abs(n) == IF n < 0 THEN 0 - n ELSE n

\* The fraction n/d (d > 0) in lowest terms.
Frac(n, d) ==
    LET g == GCD(Abs(n), d)
    IN  IF g = 0 THEN [n |-> 0, d |-> 1] ELSE [n |-> n \div g, d |-> d \div g]

\* Sums and differences are taken over the least common denominator.
FracAdd(a, b) ==
    LET g == GCD(a.d, b.d)
    IN  Frac(a.n * (b.d \div g) + b.n * (a.d \div g), (a.d \div g) * b.d)

FracSub(a, b) ==
    LET g == GCD(a.d, b.d)
    IN  Frac(a.n * (b.d \div g) - b.n * (a.d \div g), (a.d \div g) * b.d)

FracDiv(a, k) == Frac(a.n, a.d * k)

FracLeq(a, b) == a.n * b.d <= b.n * a.d

\* positions.push({ id, type, value, depth, x: 0, y: depth * VERTICAL_GAP, parentId })
\* with a wrong row: the variant the row property must rule out.
PositionedNodeNextRow(id, node, depth, parentId) ==
    [id |-> id, type |-> node.type, value |-> node.value, depth |-> depth,
     x |-> Frac(0, 1), y |-> (depth + 1) * VERTICAL_GAP, parentId |-> parentId]

\* positions.push({ id, type, value, depth, x: 0, y: depth * VERTICAL_GAP, parentId })
PositionedNode(id, node, depth, parentId) ==
    [id |-> id, type |-> node.type, value |-> node.value, depth |-> depth,
     x |-> Frac(0, 1), y |-> depth * VERTICAL_GAP, parentId |-> parentId]

\* node.children ?? []
ChildrenOf(node) == IF node.hasChildren THEN node.children ELSE <<>>

\* SumX standing for the midpoint of the first and the last child: the sum whose
\* division by the number of children gives that midpoint.
SumXEnds(ps, childIds) ==
    FracDiv(Frac((ps[childIds[1] + 1].x.n * ps[childIds[Len(childIds)] + 1].x.d
                  + ps[childIds[Len(childIds)] + 1].x.n * ps[childIds[1] + 1].x.d)
                 * Len(childIds),
                 ps[childIds[1] + 1].x.d * ps[childIds[Len(childIds)] + 1].x.d), 2)

RECURSIVE SumX(_, _)
SumX(ps, childIds) ==
    IF childIds = <<>> THEN Frac(0, 1)
    ELSE FracAdd(SumX(ps, SubSeq(childIds, 1, Len(childIds) - 1)),
                 ps[childIds[Len(childIds)] + 1].x)

\* visit: st is [positions, cursor, id]; the result is st after the visit, with id the
\* id of the visited node.  Ids count from 0; positions[id + 1] is the node with that id.
RECURSIVE visit(_, _, _, _)
RECURSIVE VisitChildren(_, _, _, _, _)
visit(node, depth, parentId, st) ==
    LET id == Len(st.positions)
        pushed == [st EXCEPT !.positions = Append(@, PositionedNode(id, node, depth, parentId))]
        children == ChildrenOf(node)
    IN  IF Len(children) = 0
        THEN [positions |-> [pushed.positions EXCEPT
                               ![id + 1].x = Frac(pushed.cursor * HORIZONTAL_GAP, 1)],
              cursor |-> pushed.cursor + 1,
              id |-> id]
        ELSE LET done == VisitChildren(children, depth + 1, id, pushed, <<>>)
                 averageX == FracDiv(SumX(done.st.positions, done.childIds), Len(done.childIds))
             IN  [positions |-> [done.st.positions EXCEPT ![id + 1].x = averageX],
                  cursor |-> done.st.cursor,
                  id |-> id]

\* children.map((child) => visit(child, depth + 1, id))
VisitChildren(children, depth, parentId, st, childIds) ==
    IF children = <<>> THEN [st |-> st, childIds |-> childIds]
    ELSE LET after == visit(Head(children), depth, Some(parentId), st)
         IN  VisitChildren(Tail(children), depth, parentId, after, Append(childIds, after.id))

\* nodes.forEach((node) => visit(node, 0))
RECURSIVE VisitRoots(_, _)
VisitRoots(nodes, st) ==
    IF nodes = <<>> THEN st ELSE VisitRoots(Tail(nodes), visit(Head(nodes), 0, Null, st))

\* Math.min(...positions.map((node) => node.x)), positions not empty.
MinX(ps) == ps[CHOOSE i \in 1..Len(ps) : \A j \in 1..Len(ps) : FracLeq(ps[i].x, ps[j].x)].x

layoutForest(nodes) ==
    LET ps == VisitRoots(nodes, [positions |-> <<>>, cursor |-> 0, id |-> 0]).positions
    IN  IF Len(ps) = 0 THEN ps
        ELSE [i \in 1..Len(ps) |-> [ps[i] EXCEPT !.x = FracSub(@, MinX(ps))]]

(***************************************************************************)
(* layoutForest over forests.  A node's type is its path from the roots    *)
(* (the positions of its ancestors and of itself among their siblings),    *)
(* so that no two nodes of a forest have the same type.                    *)
(***************************************************************************)
ASTNode(type, value, hasChildren, children) ==
    [type |-> type, value |-> value, hasChildren |-> hasChildren, children |-> children]

\* Forests of exactly n nodes, types not yet given; a leaf either has no children
\* member and a value, or an empty children list.
RECURSIVE Shapes(_)
RECURSIVE TreeShapes(_)
Shapes(n) ==
    IF n = 0 THEN {<<>>}
    ELSE UNION {{<<first>> \o rest : first \in TreeShapes(k), rest \in Shapes(n - k)} : k \in 1..n}

TreeShapes(n) ==
    IF n = 1 THEN {ASTNode(<<>>, Some("v"), FALSE, <<>>), ASTNode(<<>>, Null, TRUE, <<>>)}
    ELSE {ASTNode(<<>>, Null, TRUE, c) : c \in Shapes(n - 1)}

RECURSIVE Labelled(_, _)
Labelled(nodes, prefix) ==
    [i \in 1..Len(nodes) |->
       [nodes[i] EXCEPT !.type = Append(prefix, i),
                        !.children = Labelled(nodes[i].children, Append(prefix, i))]]

Forests == {Labelled(shape, <<>>) : shape \in UNION {Shapes(n) : n \in 0..MaxNodes}}

InitLayout ==
    /\ InitScreen
    /\ net = <<>>
    /\ ViewAtMount
    /\ fileMap = <<>>
    /\ payload = Null
    /\ astInput = AstNull
    /\ coerced = Null
    /\ clock = 0
    /\ calls = <<>>
    /\ forest \in Forests
    /\ positions = Null

\* useMemo(() => layoutForest(nodes), [nodes])
Layout ==
    /\ positions = Null
    /\ positions' = Some(layoutForest(forest))
    /\ UNCHANGED <<uiVars, net, idVars, astInput, coerced, forest, placeholderVars, viewVars>>

NextLayout == Layout

SpecLayout == InitLayout /\ [][NextLayout]_vars

\* The types (paths) of the nodes of a forest.
RECURSIVE Paths(_)
Paths(nodes) ==
    UNION {{nodes[i].type} \cup Paths(nodes[i].children) : i \in 1..Len(nodes)}

\* p comes before q in depth-first preorder: p is a proper prefix of q, or p is
\* smaller at the first place where they differ.
Before(p, q) ==
    \/ Len(p) < Len(q) /\ SubSeq(q, 1, Len(p)) = p
    \/ \E k \in 1..Min(Len(p), Len(q)) :
          /\ SubSeq(p, 1, k - 1) = SubSeq(q, 1, k - 1)
          /\ p[k] < q[k]

\* C10: layoutForest produces exactly one positioned node per node of the forest, in
\* depth-first preorder, with ids 0, 1, 2, ...; a root has depth 0 and no parentId; a
\* child has its parent's depth plus 1 and its parent's id, which is smaller than its
\* own, as parentId; and y is depth times VERTICAL_GAP.
C10_DepthRows ==
    positions # Null =>
        LET ps == positions[1]
        IN  /\ {ps[k].type : k \in 1..Len(ps)} = Paths(forest)
            /\ Len(ps) = Cardinality(Paths(forest))
            /\ \A j, k \in 1..Len(ps) : j < k => Before(ps[j].type, ps[k].type)
            /\ \A k \in 1..Len(ps) :
                 /\ ps[k].id = k - 1
                 /\ ps[k].y = ps[k].depth * 120
                 /\ IF Len(ps[k].type) = 1
                    THEN ps[k].depth = 0 /\ ps[k].parentId = Null
                    ELSE \E j \in 1..(k - 1) :
                           /\ ps[j].type = SubSeq(ps[k].type, 1, Len(ps[k].type) - 1)
                           /\ ps[k].depth = ps[j].depth + 1
                           /\ ps[k].parentId = Some(ps[j].id)

\* A laid-out forest with a grandchild and a second root.
C10_Witness ==
    /\ positions # Null
    /\ Len(forest) = 2
    /\ \E k \in 1..Len(positions[1]) :
         /\ positions[1][k].depth = 2
         /\ positions[1][k].y = 240
         /\ positions[1][k].parentId = Some(1)

\* The places in ps of the direct children of the node at place k.
ChildrenAt(ps, k) == {j \in 1..Len(ps) : ps[j].parentId = Some(ps[k].id)}

\* The places of the nodes without children.
LeavesOf(ps) == {k \in 1..Len(ps) : ChildrenAt(ps, k) = {}}

RECURSIVE FracSumOver(_, _)
FracSumOver(ps, S) ==
    IF S = {} THEN Frac(0, 1)
    ELSE LET j == CHOOSE i \in S : TRUE
         IN  FracAdd(ps[j].x, FracSumOver(ps, S \ {j}))

\* C11: in the result of layoutForest the leaves take the multiples 0, 150, 300, ...
\* of HORIZONTAL_GAP in depth-first order, every node with children has the arithmetic
\* mean of its direct children's x as x, and the smallest x is 0.
C11_ParentAtAverage ==
    positions # Null =>
        LET ps == positions[1]
        IN  /\ \A k \in 1..Len(ps) :
                 IF k \in LeavesOf(ps)
                 THEN ps[k].x = Frac(150 * Cardinality({j \in LeavesOf(ps) : j < k}), 1)
                 ELSE ps[k].x = FracDiv(FracSumOver(ps, ChildrenAt(ps, k)),
                                        Cardinality(ChildrenAt(ps, k)))
            /\ ps # <<>> =>
                 /\ \E k \in 1..Len(ps) : ps[k].x = Frac(0, 1)
                 /\ \A k \in 1..Len(ps) : ps[k].x.n >= 0

\* A root over three children that are not evenly spaced: at 75 (over two leaves),
\* 300 and 450; their mean is 275.
C11_Witness ==
    /\ positions # Null
    /\ Len(positions[1]) = 6
    /\ positions[1][1].x = Frac(275, 1)
    /\ Cardinality(ChildrenAt(positions[1], 1)) = 3
    /\ positions[1][2].x = Frac(75, 1)

(***************************************************************************)
(* coerceAst over JSON values.                                             *)
(***************************************************************************)
Labels(type, kind, name, value) == [type |-> type, kind |-> kind, name |-> name, value |-> value]

\* The type, kind, name and value members of the objects that have an identity.
AstIdentities ==
    { Labels(StringMember("Module"), AbsentMember, AbsentMember, AbsentMember),
      Labels(NullMember, StringMember("Call"), AbsentMember, AbsentMember),
      Labels(AbsentMember, AbsentMember, StringMember("f"), AbsentMember),
      Labels(StringMember("Name"), AbsentMember, StringMember("f"), StringMember("x")),
      Labels(NumberMember, AbsentMember, AbsentMember, AbsentMember),
      Labels(ShadowedToStringMember, AbsentMember, AbsentMember, AbsentMember) }

\* JSON values made of exactly n values, and lists of values made of m values in all.
RECURSIVE AstValues(_)
RECURSIVE AstLists(_)
AstValues(n) ==
    IF n = 1
    THEN {AstNull, AstPrimitive(FALSE), AstPrimitive(TRUE), AstArray(<<>>),
          AstObject(NoLabels, Null, Null, Null, <<>>)}
         \cup {AstObject(l, Null, Null, Null, <<>>) : l \in AstIdentities}
    ELSE {AstArray(q) : q \in AstLists(n - 1)}
         \cup {AstObject(NoLabels, Null, Null, Null, q) : q \in AstLists(n - 1)}
         \cup {AstObject(NoLabels, Some(q[1]), Null, Null, q) : q \in AstLists(n - 1)}
         \cup UNION {{AstObject(l, Some(v), Null, Null, <<>>),
                      AstObject(l, Null, Some(v), Null, <<>>),
                      AstObject(l, Null, Null, Some(v), <<>>)} :
                       l \in AstIdentities, v \in AstValues(n - 1)}
         \cup UNION {{AstObject(l, Some(q[1]), Some(q[2]), Null, <<>>),
                      AstObject(l, Null, Some(q[1]), Some(q[2]), <<>>)} :
                       l \in AstIdentities, q \in {r \in AstLists(n - 1) : Len(r) = 2}}

AstLists(m) ==
    IF m = 0 THEN {<<>>}
    ELSE UNION {{<<v>> \o rest : v \in AstValues(k), rest \in AstLists(m - k)} : k \in 1..m}

InitAst ==
    /\ InitScreen
    /\ net = <<>>
    /\ ViewAtMount
    /\ fileMap = <<>>
    /\ payload = Null
    /\ astInput \in UNION {AstValues(n) : n \in 1..MaxAst}
    /\ coerced = Null
    /\ clock = 0
    /\ calls = <<>>
    /\ forest = <<>>
    /\ positions = Null

\* coerceAst(response.submission?.ast) and its like.
CoerceAst ==
    /\ coerced = Null
    /\ coerced' = Some(coerceAst(astInput))
    /\ UNCHANGED <<uiVars, net, idVars, astInput, forest, positions, placeholderVars, viewVars>>

NextAst == CoerceAst

SpecAst == InitAst /\ [][NextAst]_vars

\* null, a primitive, the empty array and the empty object.
EmptyAstInput(input) ==
    \/ input.k \in {"null", "primitive"}
    \/ input = AstArray(<<>>)
    \/ input = AstObject(NoLabels, Null, Null, Null, <<>>)

\* C12: for every JSON value coerceAst returns, without throwing, a list of nodes; for
\* null, a primitive, an empty array and an empty object the list is empty.
C12_CoerceAstTotal ==
    coerced # Null =>
        /\ ~coerced[1].threw
        /\ EmptyAstInput(astInput) => coerced[1].nodes = <<>>

(***************************************************************************)
(* The placeholder functions of lib/apiPlaceholders.ts.                    *)
(***************************************************************************)
\* async function delay(duration = 600)
delayDuration == 600

\* Math.max(min, Math.min(max, value)) on fractions.
clamp(value, min, max) ==
    LET capped == IF FracLeq(value, max) THEN value ELSE max
    IN  IF FracLeq(min, capped) THEN capped ELSE min

\* Math.round of a fraction that is not negative.
Round(value) == (2 * value.n + value.d) \div (2 * value.d)

\* Whether word occurs in code at index i.
OccursAt(code, word, i) ==
    /\ i + Len(word) - 1 <= Len(code)
    /\ SubSeq(code, i, i + Len(word) - 1) = word

\* /\/\//.test(code)
HasLineComment(code) == \E i \in 1..Len(code) : OccursAt(code, <<"/", "/">>, i)

FunctionWord == <<"f", "u", "n", "c", "t", "i", "o", "n">>

ArrowWord == <<"=", ">">>

\* Matches of /function|=>/ in code from index i on, found as split finds them.
RECURSIVE CountMatches(_, _)
CountMatches(code, i) ==
    IF i > Len(code) THEN 0
    ELSE IF OccursAt(code, FunctionWord, i) THEN 1 + CountMatches(code, i + Len(FunctionWord))
    ELSE IF OccursAt(code, ArrowWord, i) THEN 1 + CountMatches(code, i + Len(ArrowWord))
    ELSE CountMatches(code, i + 1)

\* code.split(/function|=>/).length
SplitLength(code) == CountMatches(code, 1) + 1

\* code.split(/\n/)
RECURSIVE SplitLines(_, _)
SplitLines(code, line) ==
    IF code = <<>> THEN <<line>>
    ELSE IF Head(code) = "\n" THEN <<line>> \o SplitLines(Tail(code), <<>>)
    ELSE SplitLines(Tail(code), Append(line, Head(code)))

\* .map((line) => line.trim()).filter(Boolean)
RECURSIVE TrimmedLines(_)
TrimmedLines(lines) ==
    IF lines = <<>> THEN <<>>
    ELSE IF IsBlank(Head(lines)) THEN TrimmedLines(Tail(lines))
    ELSE <<Trim(Head(lines))>> \o TrimmedLines(Tail(lines))

\* s.slice(0, n)
Slice(s, n) == SubSeq(s, 1, Min(n, Len(s)))

checkPlagiarism(codeA_, codeB_) ==
    LET diff == Abs(Len(codeA_) - Len(codeB_))
        similarityPercent == clamp(Frac(1900 - diff, 20), Frac(10, 1), Frac(98, 1))
    IN  [similarityPercent |-> Round(similarityPercent),
         embeddingSim |-> clamp(Frac(1440 - diff, 1600), Frac(0, 1), Frac(99, 100)),
         structureSim |-> clamp(Frac(850 - diff, 1000), Frac(0, 1), Frac(95, 100)),
         matchedLines |-> <<[a |-> 3, b |-> 5], [a |-> 14, b |-> 17]>>,
         insights |-> <<"High loop similarity", "Similar function structure">>]

checkCodeQuality(code) ==
    LET lengthScore == clamp(Frac(5000 - Len(code), 50), Frac(55, 1), Frac(95, 1))
        issues == (IF ~HasLineComment(code) THEN <<"Low comment ratio">> ELSE <<>>)
                  \o (IF SplitLength(code) > 3 THEN <<"Consider splitting into modules">> ELSE <<>>)
                  \o (IF Len(code) > 240 THEN <<"Function too long">> ELSE <<>>)
    IN  [qualityScore |-> Round(lengthScore),
         issues |-> IF issues = <<>> THEN <<"Looks solid - add tests for certainty">>
                    ELSE issues]

\* generateAST with a node that carries the time of the call: what a mock that reads
\* the clock would return.
generateASTStamped(code) ==
    LET lines == Slice(TrimmedLines(SplitLines(code, <<>>)), 4)
    IN  [nodes |-> <<[type |-> "FunctionDeclaration",
                      children |-> [index \in 1..Len(lines) |->
                                      [type |-> IF index = 1 THEN "Identifier" ELSE "Statement",
                                       value |-> <<clock>>]]]>>]

generateAST(code) ==
    LET lines == Slice(TrimmedLines(SplitLines(code, <<>>)), 4)
    IN  [nodes |-> <<[type |-> "FunctionDeclaration",
                      children |-> [index \in 1..Len(lines) |->
                                      [type |-> IF index = 1 THEN "Identifier" ELSE "Statement",
                                       value |-> Slice(lines[index], 40)]]]>>]

\* The result a call resolves to.
PlaceholderResult(fn, args) ==
    IF fn = "checkPlagiarism" THEN checkPlagiarism(args[1], args[2])
    ELSE IF fn = "checkCodeQuality" THEN checkCodeQuality(args[1])
    ELSE generateAST(args[1])

\* Calls made to the placeholder functions at one time.
MaxCalls == 2

\* Milliseconds the clock advances by in one step, and the time it stops at.
TickMs == 300

MaxClock == 1200

\* Code given to the placeholder functions.
PlaceholderCodes ==
    { <<>>,
      <<"a">>,
      <<"/", "/", "a">>,
      <<"a", "=", ">", "a", "=", ">", "a", "=", ">", "a">>,
      <<"a", "\n", " ", "a", " ", "\n", " ", "\n", "a", "\n", "a", "\n", "a">>,
      FunctionWord }

PlaceholderArgs(fn) ==
    IF fn = "checkPlagiarism" THEN PlaceholderCodes \X PlaceholderCodes
    ELSE {<<code>> : code \in PlaceholderCodes}

InitPlaceholders ==
    /\ InitScreen
    /\ net = <<>>
    /\ ViewAtMount
    /\ fileMap = <<>>
    /\ payload = Null
    /\ astInput = AstNull
    /\ coerced = Null
    /\ forest = <<>>
    /\ positions = Null
    /\ clock = 0
    /\ calls = <<>>

\* A placeholder function is called: its body awaits delay().
PlaceholderCall(fn, args) ==
    /\ Len(calls) < MaxCalls
    /\ calls' = Append(calls, [fn |-> fn, args |-> args, startedAt |-> clock,
                               resolvedAt |-> Null, result |-> Null])
    /\ UNCHANGED <<uiVars, net, idVars, layoutVars, viewVars, clock>>

\* Time passes.
Tick ==
    /\ clock < MaxClock
    /\ clock' = clock + TickMs
    /\ UNCHANGED <<uiVars, net, idVars, layoutVars, viewVars, calls>>

\* The timer of delay() has run out: the call computes its result and resolves.
PlaceholderResolve(i) ==
    /\ calls[i].resolvedAt = Null
    /\ clock - calls[i].startedAt >= delayDuration
    /\ calls' = [calls EXCEPT ![i].resolvedAt = Some(clock),
                              ![i].result = Some(PlaceholderResult(calls[i].fn, calls[i].args))]
    /\ UNCHANGED <<uiVars, net, idVars, layoutVars, viewVars, clock>>

NextPlaceholders ==
    \/ \E fn \in {"checkPlagiarism", "checkCodeQuality", "generateAST"} :
         \E args \in PlaceholderArgs(fn) : PlaceholderCall(fn, args)
    \/ Tick
    \/ \E i \in DOMAIN calls : PlaceholderResolve(i)

SpecPlaceholders == InitPlaceholders /\ [][NextPlaceholders]_vars

StaleSuccess(r) ==
    /\ r \in DOMAIN runs
    /\ r < Len(runs)
    /\ runs[r].state = "pending"
    /\ runs[Len(runs)].state = "ok"
    /\ runs'[r].state = "ok"

\* C14: when two Analyze runs overlap and both succeed, the result displayed in the end
\* is that of the run started last: an earlier run whose response arrives after the
\* last run's leaves the displayed analysis and bulk results as the last run set them.
C14_LatestRunWins ==
    [][(\E r \in 1..MaxRuns : StaleSuccess(r)) => UNCHANGED <<analysis, bulkResults>>]_vars

(***************************************************************************)
(* One kind of result at a time.                                           *)
(***************************************************************************)
\* C15: analysis and bulkResults are never both set.
C15_OneResultKind == ~(analysis # Null /\ bulkResults # Null)

\* A single-mode run has succeeded after a bulk-mode run had.
C15_Witness ==
    /\ Len(runs) = 2
    /\ runs[1].mode = "bulk"
    /\ runs[1].state = "ok"
    /\ runs[2].mode = "single"
    /\ runs[2].state = "ok"
    /\ net[runs[1].req].stage = "closed"
    /\ analysis # Null

(***************************************************************************)
(* Completion of Analyze runs.                                             *)
(***************************************************************************)
\* The continuation of a settled promise is run: once the awaited request of run r has
\* settled, the rest of handleAnalyze is taken from the microtask queue.
SpecFair == Spec /\ \A r \in 1..MaxRuns : WF_vars(AnalyzeSettle(r))

\* The request run r awaits has settled.
Settled(r) ==
    IF r \in DOMAIN runs
    THEN runs[r].state = "pending" /\ net[runs[r].req].stage = "toClient"
    ELSE FALSE

\* Run r has reached the end of handleAnalyze.
Completed(r) == IF r \in DOMAIN runs THEN runs[r].state # "pending" ELSE FALSE

\* Run r reaches the end of handleAnalyze in this step.
Completes(r) ==
    /\ r \in DOMAIN runs'
    /\ runs'[r].state # "pending"
    /\ (r \in DOMAIN runs => runs[r].state = "pending")

\* A run starts in this step.
Starts == Len(runs') = Len(runs) + 1

\* C16: a started run whose request has settled completes; every completion leaves
\* isAnalyzing false; and a start leaves no earlier error message: errorMessage is
\* null after it, or the message of this run's own validation failure.
C16_RunsComplete ==
    /\ \A r \in 1..MaxRuns : Settled(r) ~> Completed(r)
    /\ [][(\E r \in 1..MaxRuns : Completes(r)) => isAnalyzing' = FALSE]_vars
    /\ [][Starts => errorMessage' = (IF ValidationError = "" THEN Null
                                     ELSE Some(ValidationError))]_vars

\* A second run is awaiting its answer after the first one failed on its request and
\* set a message: the start of the second has cleared it.
C16_Witness ==
    /\ Len(runs) = 2
    /\ runs[1].state = "failed"
    /\ runs[1].req # 0
    /\ runs[2].state = "pending"
    /\ errorMessage = Null
    /\ isAnalyzing

(***************************************************************************)
(* CheckerScreen with its uploaded-file list, before any answer arrives.   *)
(***************************************************************************)
BPy == <<"B", ".", "P", "Y">>

ATxt == <<"a", ".", "t", "x", "t">>

\* What the user picks in the file dialog: names in either case, another extension,
\* blank content, new content for a listed name.
PickedFileLists ==
    { <<File(APy, <<"x">>)>>,
      <<File(APy, <<" ">>)>>,
      <<File(BPy, <<"y">>)>>,
      <<File(ATxt, <<"x">>)>>,
      <<File(APy, <<"y">>), File(ATxt, <<"x">>)>>,
      <<File(ATxt, <<"x">>), File(BPy, <<" ">>)>> }

FileNames == {APy, BPy, ATxt}

\* What the user types in the preview editor.
PreviewTexts == {<<" ">>, <<"x">>}

NextFiles ==
    \/ \E m \in {"single", "bulk"} : SetMode(m)
    \/ \E files \in PickedFileLists : Len(uploads) < MaxUploads /\ handleBulkFileSelect(files)
    \/ \E k \in DOMAIN uploads : UploadRead(k)
    \/ \E name \in FileNames : handleSelectUploadedFile(name)
    \/ \E value \in PreviewTexts : handleUploadedFileCodeChange(value)
    \/ \E name \in FileNames : handleRemoveUploadedFile(name)
    \/ handleClearUploadedFiles

SpecFiles == Init /\ [][NextFiles]_vars

\* The editors, the file list and the Analyze button.
NextValidate ==
    \/ \E m \in {"single", "bulk"} : SetMode(m)
    \/ \E text \in EditorTextsA : SetCodeA(text)
    \/ \E text \in EditorTextsB : SetCodeB(text)
    \/ \E files \in PickedFileLists : Len(uploads) < MaxUploads /\ handleBulkFileSelect(files)
    \/ \E k \in DOMAIN uploads : UploadRead(k)
    \/ \E value \in PreviewTexts : handleUploadedFileCodeChange(value)
    \/ AnalyzeClick

SpecValidate == Init /\ [][NextValidate]_vars

\* Every character of s is a space.
AllSpaces(s) == \A i \in 1..Len(s) : s[i] = " "

\* The code of the files with content, in the order of the list.
RECURSIVE ContentOf(_)
ContentOf(files) ==
    IF files = <<>> THEN <<>>
    ELSE (IF AllSpaces(Head(files).code) THEN <<>> ELSE <<Head(files).code>>)
         \o ContentOf(Tail(files))

\* Nothing is sent and the message is set.
Refused(message) == net' = net /\ errorMessage' = Some(message)

\* C17: validation precedes the network.  A run that starts with a blank reference,
\* with a blank submission in single mode, or in bulk mode with no uploaded file that
\* has content, sends no request and sets the matching message; the submissions of a
\* bulk request are the files with content, in order.
C17_ValidationFirst ==
    [][Starts =>
         /\ AllSpaces(codeA) => Refused("Reference code cannot be empty")
         /\ (~AllSpaces(codeA) /\ mode = "single" /\ AllSpaces(codeB))
               => Refused("Submission code cannot be empty")
         /\ (~AllSpaces(codeA) /\ mode = "bulk" /\ ContentOf(uploadedFiles) = <<>>)
               => Refused("Upload at least one Python file to compare")
         /\ (mode = "bulk" /\ net' # net)
               => LET sent == net'[Len(net')].body.submissions.items
                  IN  [i \in 1..Len(sent) |-> sent[i].code.s] = ContentOf(uploadedFiles)]_vars

\* A bulk run was refused while the list held files, all of blank content.
C17_Witness ==
    /\ Len(runs) = 1
    /\ runs[1].mode = "bulk"
    /\ runs[1].state = "failed"
    /\ runs[1].req = 0
    /\ net = <<>>
    /\ uploadedFiles # <<>>
    /\ codeA = DefaultSnippetA
    /\ errorMessage = Some("Upload at least one Python file to compare")

(***************************************************************************)
(* CheckerScreen with bulk results and their controls.                     *)
(***************************************************************************)
\* Result lists of the service: none, ids told apart, an id that is "".
SelectableResultLists ==
    { Array(<<>>),
      Array(<<BulkResult(<<"a">>, Some(20), Some(80)), BulkResult(<<"b">>, Some(80), Null)>>),
      Array(<<BulkResult(<<"a">>, Some(80), Some(20)), BulkResult(<<>>, Some(20), Some(80))>>) }

SelectableAnswers(route) ==
    IF route = "compare"
    THEN {UpstreamResponse(200, JsonText(JsonObject(TRUE, NoMessage, NotArray, Some(87))))}
    ELSE {UpstreamResponse(200, JsonText(JsonObject(TRUE, NoMessage, r, Null))) :
            r \in SelectableResultLists}

UserBulkControls ==
    \/ \E o \in {"plagiarism", "quality"} : SetBulkSortBy(o)
    \/ \E i \in 1..2 : SelectBulkResult(i)

NextBulk ==
    \/ \E m \in {"single", "bulk"} : SetMode(m)
    \/ \E files \in PickedFiles : Len(uploads) < MaxUploads /\ handleBulkFileSelect(files)
    \/ \E k \in DOMAIN uploads : UploadRead(k)
    \/ AnalyzeClick
    \/ \E i \in DOMAIN net : ProxyReceive(i)
    \/ \E i \in DOMAIN net : \E up \in SelectableAnswers(net[i].route) : ProxyFinish(i, up)
    \/ \E r \in 1..MaxRuns : AnalyzeSettle(r)
    \/ SelectionTimerFires
    \/ UserBulkControls

SpecBulk == Init /\ [][NextBulk]_vars

\* C18: with bulk results to show, the displayed result is the entry of the sorted
\* results whose id is selectedBulkId when there is one and the first entry otherwise;
\* with none it is null.
C18_SelectedBulkResult ==
    IF sortedBulkResults = <<>> THEN selectedBulkResult = Null
    ELSE IF /\ selectedBulkId # Null
            /\ \E i \in 1..Len(sortedBulkResults) : sortedBulkResults[i].id = selectedBulkId[1]
         THEN selectedBulkResult # Null /\ selectedBulkResult[1].id = selectedBulkId[1]
         ELSE selectedBulkResult = Some(sortedBulkResults[1])

(***************************************************************************)
(* The selection in the uploaded-file list.                                *)
(***************************************************************************)
\* C19: after each action on the uploaded-file list and its effects, selectedFilename
\* is null exactly when the list is empty, and names a listed file otherwise; uploads
\* may be reading their files meanwhile.
C19_SelectionFollowsFiles ==
    /\ (selectedFilename = Null) <=> (uploadedFiles = <<>>)
    /\ selectedFilename # Null =>
         \E i \in 1..Len(uploadedFiles) : uploadedFiles[i].name = selectedFilename[1]

\* While an upload of a.py is reading, the list holds B.PY alone, selected: a.py was
\* listed before and has been removed.
C19_Witness ==
    /\ Len(uploads) = 1
    /\ uploads[1][1].name = APy
    /\ uploads[1][1].code = <<"y">>
    /\ Len(uploadedFiles) = 1
    /\ uploadedFiles[1].name = BPy
    /\ uploadedFiles[1].code = <<"x">>
    /\ selectedFilename = Some(BPy)

(***************************************************************************)
(* What an upload adds to the list.                                        *)
(***************************************************************************)
\* The name ends in ".py", in any letter case.
EndsWithPy(name) ==
    /\ Len(name) >= 3
    /\ SubSeq(name, Len(name) - 2, Len(name))
         \in {<<".", "p", "y">>, <<".", "P", "y">>, <<".", "p", "Y">>, <<".", "P", "Y">>}

RECURSIVE Accepted(_)
Accepted(files) ==
    IF files = <<>> THEN <<>>
    ELSE (IF EndsWithPy(Head(files).name) THEN <<Head(files)>> ELSE <<>>) \o Accepted(Tail(files))

Keys(files) == {files[i].name : i \in 1..Len(files)}

CodeOf(files, name) == files[CHOOSE i \in 1..Len(files) : files[i].name = name].code

OnlyPythonMessage == "Only Python (.py) files can be uploaded."

\* The change event for the chosen files: the error is set exactly when a file is
\* rejected, and the accepted files, if any, are the ones whose text is then read.
Chosen(files) ==
    /\ uploadError' = (IF Len(Accepted(files)) < Len(files) THEN Some(OnlyPythonMessage)
                       ELSE Null)
    /\ uploads' = (IF Accepted(files) = <<>> THEN uploads
                   ELSE Append(uploads, Accepted(files)))
    /\ uploadedFiles' = uploadedFiles

\* The files of upload k are in the list under their names with their content, and
\* every other entry is as it was.
Added(k) ==
    /\ Keys(uploadedFiles') = Keys(uploadedFiles) \cup Keys(uploads[k])
    /\ Len(uploadedFiles') = Cardinality(Keys(uploadedFiles'))
    /\ \A name \in Keys(uploadedFiles') :
         CodeOf(uploadedFiles', name) = (IF name \in Keys(uploads[k])
                                         THEN CodeOf(uploads[k], name)
                                         ELSE CodeOf(uploadedFiles, name))
    /\ uploadError' = uploadError

\* C20: handleBulkFileSelect adds exactly the chosen files whose name ends in ".py"
\* (in any case), by name: a listed name gets the new content and the other entries
\* stay; uploadError is the message if and only if a chosen file was rejected.
C20_UploadAddsPythonFiles ==
    [][/\ \A files \in PickedFileLists : handleBulkFileSelect(files) => Chosen(files)
       /\ \A k \in 1..MaxUploads : UploadRead(k) => Added(k)]_vars

\* The list holds B.PY and, after it, a.py with the content that was picked together
\* with a rejected file; the message of that pick is shown.
C20_Witness ==
    /\ uploads = <<>>
    /\ uploadError = Some(OnlyPythonMessage)
    /\ Keys(uploadedFiles) = {APy, BPy}
    /\ CodeOf(uploadedFiles, APy) = <<"y">>
    /\ CodeOf(uploadedFiles, BPy) = <<"y">>
    /\ uploadedFiles[1].name = BPy

(***************************************************************************)
(* The controls after a bulk run.                                          *)
(***************************************************************************)
\* A bulk-mode run completes with success in this step.
BulkSuccess ==
    \E r \in DOMAIN runs :
        runs[r].mode = "bulk" /\ runs[r].state = "pending" /\ runs'[r].state = "ok"

\* The entry has the highest plagiarism percent of the results.
TopRanked(entry, results) ==
    \A i \in 1..Len(results) : results[i].similarityPercent <= entry.similarityPercent

\* The selection effect runs in this step on what a bulk success has left.
EffectAfterBulkSuccess ==
    /\ selTimer
    /\ ~selTimer'
    /\ bulkResults # Null
    /\ bulkResults[1] # <<>>
    /\ bulkSortBy = "plagiarism"
    /\ selectedBulkId = Null

\* C21: a successful bulk run leaves the sort option "plagiarism" and displays an entry
\* with the highest plagiarism percent, whatever sort option and selection were active;
\* the selection effect that follows selects that entry.
C21_BulkRunResetsControls ==
    /\ [][BulkSuccess =>
            /\ bulkSortBy' = "plagiarism"
            /\ bulkResults'[1] # <<>> =>
                 /\ selectedBulkResult' # Null
                 /\ TopRanked(selectedBulkResult'[1], bulkResults'[1])]_vars
    /\ [][EffectAfterBulkSuccess =>
            /\ selectedBulkResult' # Null
            /\ selectedBulkId' = Some(selectedBulkResult'[1].id)
            /\ TopRanked(selectedBulkResult'[1], bulkResults'[1])
            /\ bulkSortBy' = "plagiarism"]_vars

\* After a second bulk run and its selection effect, "b", listed second by the service
\* and ranked first, is selected.
C21_Witness ==
    /\ Len(runs) = 2
    /\ runs[1].mode = "bulk"
    /\ runs[1].state = "ok"
    /\ runs[2].mode = "bulk"
    /\ runs[2].state = "ok"
    /\ ~selTimer
    /\ bulkSortBy = "plagiarism"
    /\ bulkResults # Null
    /\ Len(bulkResults[1]) = 2
    /\ bulkResults[1][2].id = <<"b">>
    /\ selectedBulkId = Some(<<"b">>)

\* The sort option changes in this step and the results stay.
SortChange == bulkSortBy' # bulkSortBy /\ bulkResults' = bulkResults

\* C22: changing the sort option does not change which submission is displayed: the id
\* of selectedBulkResult is the same before and after the change.
C22_SortKeepsSelection ==
    [][SortChange =>
         /\ selectedBulkResult # Null
         /\ selectedBulkResult' # Null
         /\ selectedBulkResult'[1].id = selectedBulkResult[1].id]_vars

(***************************************************************************)
(* ASTVisualizer: the pan and zoom view of the canvas.  Numbers are exact  *)
(* fractions; the rounding of floating-point arithmetic is left out.       *)
(***************************************************************************)

NODE_WIDTH == 140

NODE_HEIGHT == 68

MIN_SCALE == Frac(2, 5)

MAX_SCALE == Frac(13, 5)

\* const margin = 140 of computeInitialView.
margin == 140

\* a * b, with the common factors cancelled before the products are taken.
FracMul(a, b) ==
    LET g == GCD(Abs(a.n), b.d)
        h == GCD(Abs(b.n), a.d)
    IN  IF a.n = 0 \/ b.n = 0 THEN Frac(0, 1)
        ELSE Frac((a.n \div g) * (b.n \div h), (a.d \div h) * (b.d \div g))

\* a / b for b > 0.
FracQuot(a, b) == FracMul(a, [n |-> b.d, d |-> b.n])

FracMin(a, b) == IF FracLeq(a, b) THEN a ELSE b

FracMax(a, b) == IF FracLeq(a, b) THEN b ELSE a

\* function clamp(value, min, max) { return Math.min(max, Math.max(min, value)); }
clampScale(value, min, max) == FracMin(max, FracMax(min, value))

\* The fold of computeInitialView over the nodes, from index i on.
RECURSIVE ReduceBounds(_, _, _)
ReduceBounds(nodes, i, acc) ==
    IF i > Len(nodes) THEN acc
    ELSE LET node   == nodes[i]
             left   == FracSub(node.x, Frac(NODE_WIDTH, 2))
             right  == FracAdd(node.x, Frac(NODE_WIDTH, 2))
             bottom == Frac(node.y + NODE_HEIGHT, 1)
             top    == Frac(node.y, 1)
         IN  ReduceBounds(nodes, i + 1,
                 [minX |-> IF acc.minX = Null THEN Some(left)
                           ELSE Some(FracMin(acc.minX[1], left)),
                  maxX |-> IF acc.maxX = Null THEN Some(right)
                           ELSE Some(FracMax(acc.maxX[1], right)),
                  minY |-> IF acc.minY = Null THEN Some(top)
                           ELSE Some(FracMin(acc.minY[1], top)),
                  maxY |-> IF acc.maxY = Null THEN Some(bottom)
                           ELSE Some(FracMax(acc.maxY[1], bottom))])

\* computeInitialView without the clamp of the base scale: the variant the
\* range of the scale must rule out.
computeInitialViewUnclamped(nodes, dims) ==
    IF Len(nodes) = 0
    THEN [scale |-> Frac(1, 1),
          offsetX |-> FracSub(FracDiv(dims.width, 2), Frac(NODE_WIDTH, 2)),
          offsetY |-> Frac(60, 1)]
    ELSE LET bounds == ReduceBounds(nodes, 1,
                           [minX |-> Null, maxX |-> Null, minY |-> Null, maxY |-> Null])
             treeWidth  == FracMax(Frac(1, 1), FracSub(bounds.maxX[1], bounds.minX[1]))
             treeHeight == FracMax(Frac(1, 1), FracSub(bounds.maxY[1], bounds.minY[1]))
             scaleX == FracQuot(FracSub(dims.width, Frac(margin, 1)), treeWidth)
             scaleY == FracQuot(FracSub(dims.height, Frac(margin, 1)), treeHeight)
             scale  == FracMin(FracMin(scaleX, scaleY), Frac(7, 5))
             centerX == FracDiv(FracAdd(bounds.minX[1], bounds.maxX[1]), 2)
         IN  [scale |-> scale,
              offsetX |-> FracSub(FracDiv(dims.width, 2), FracMul(centerX, scale)),
              offsetY |-> FracSub(Frac(margin, 2), FracMul(bounds.minY[1], scale))]

\* Infinity and -Infinity, the fold's initial bounds, are Null: with at least
\* one node every bound is replaced by a number.
computeInitialView(nodes, dims) ==
    IF Len(nodes) = 0
    THEN [scale |-> Frac(1, 1),
          offsetX |-> FracSub(FracDiv(dims.width, 2), Frac(NODE_WIDTH, 2)),
          offsetY |-> Frac(60, 1)]
    ELSE LET bounds == ReduceBounds(nodes, 1,
                           [minX |-> Null, maxX |-> Null, minY |-> Null, maxY |-> Null])
             treeWidth  == FracMax(Frac(1, 1), FracSub(bounds.maxX[1], bounds.minX[1]))
             treeHeight == FracMax(Frac(1, 1), FracSub(bounds.maxY[1], bounds.minY[1]))
             scaleX == FracQuot(FracSub(dims.width, Frac(margin, 1)), treeWidth)
             scaleY == FracQuot(FracSub(dims.height, Frac(margin, 1)), treeHeight)
             baseScale == FracMin(FracMin(scaleX, scaleY), Frac(7, 5))
             scale  == clampScale(baseScale, MIN_SCALE, MAX_SCALE)
             centerX == FracDiv(FracAdd(bounds.minX[1], bounds.maxX[1]), 2)
         IN  [scale |-> scale,
              offsetX |-> FracSub(FracDiv(dims.width, 2), FracMul(centerX, scale)),
              offsetY |-> FracSub(Frac(margin, 2), FracMul(bounds.minY[1], scale))]

\* event.deltaY < 0 ? 1.12 : 0.9
scaleDelta(deltaY) == IF deltaY < 0 THEN Frac(28, 25) ELSE Frac(9, 10)

\* The view of handleWheel that anchors the offsets with the unclamped
\* scale: the variant the fixed point under the cursor must rule out.
ZoomAtUnclampedAnchor(current, mouseX, mouseY, deltaY) ==
    LET raw       == FracMul(current.scale, scaleDelta(deltaY))
        nextScale == clampScale(raw, MIN_SCALE, MAX_SCALE)
        worldX    == FracQuot(FracSub(mouseX, current.offsetX), current.scale)
        worldY    == FracQuot(FracSub(mouseY, current.offsetY), current.scale)
    IN  [scale   |-> nextScale,
         offsetX |-> FracSub(mouseX, FracMul(worldX, raw)),
         offsetY |-> FracSub(mouseY, FracMul(worldY, raw))]

\* The view handleWheel stores, for the cursor at (mouseX, mouseY) of the canvas.
ZoomAt(current, mouseX, mouseY, deltaY) ==
    LET nextScale == clampScale(FracMul(current.scale, scaleDelta(deltaY)),
                                MIN_SCALE, MAX_SCALE)
        worldX    == FracQuot(FracSub(mouseX, current.offsetX), current.scale)
        worldY    == FracQuot(FracSub(mouseY, current.offsetY), current.scale)
    IN  [scale   |-> nextScale,
         offsetX |-> FracSub(mouseX, FracMul(worldX, nextScale)),
         offsetY |-> FracSub(mouseY, FracMul(worldY, nextScale))]

\* Nodes of a forest shown in the visualizer.
MaxViewNodes == 1

\* Largest denominator of a scale the wheel is turned at.
MaxScaleDenominator == 28125

\* Largest denominator of the offsets a wheel is turned at.
MaxOffsetDenominator == 1

\* Largest distance of an offset from zero a drag leads to.
MaxPan == 500

ViewForests == {Labelled(shape, <<>>) : shape \in UNION {Shapes(n) : n \in 0..MaxViewNodes}}

\* Container sizes: the default one, one narrower and lower than the fit
\* margin, and one in which a single node fits at the scale 3125/2304, from
\* where six zoom-in steps reach MAX_SCALE over the scales 875/576, 245/144,
\* 343/180, 2401/1125 and 67228/28125.
ContainerSizes ==
    {[width |-> Frac(900, 1), height |-> Frac(480, 1)],
     [width |-> Frac(100, 1), height |-> Frac(100, 1)],
     [width |-> Frac(900, 1), height |-> Frac(133765, 576)]}

\* Cursor positions of a wheel event, relative to the view's origin.
CursorOffsets == {[x |-> 50, y |-> 0 - 50]}

WheelDeltas == {0 - 100, 100}

\* Client positions of pointer events (the pointer is captured, so a move
\* is delivered outside the canvas as well).
PointerPoints == {[x |-> 0, y |-> 0], [x |-> 450, y |-> 50]}

hasNodes == forest # <<>>

positionedNodes == layoutForest(forest)

\* The first commit: the mount effects have run (the ResizeObserver is
\* attached when the container is rendered, and the layout effect has
\* computed the initial view of a non-empty forest).
InitView ==
    /\ InitScreen
    /\ net = <<>>
    /\ fileMap = <<>>
    /\ payload = Null
    /\ astInput = AstNull
    /\ coerced = Null
    /\ clock = 0
    /\ calls = <<>>
    /\ forest \in ViewForests
    /\ positions = Some(layoutForest(forest))
    /\ dimensions = [width |-> Frac(900, 1), height |-> Frac(480, 1)]
    /\ viewRef = IF forest = <<>>
                 THEN [scale |-> Frac(1, 1), offsetX |-> Frac(0, 1), offsetY |-> Frac(60, 1)]
                 ELSE computeInitialView(layoutForest(forest), dimensions)
    /\ hasInteractedRef = FALSE
    /\ dragging = FALSE
    /\ pointerOrigin = [x |-> 0, y |-> 0]
    /\ observed = (forest # <<>>)

viewFixed == <<uiVars, net, idVars, astInput, coerced, placeholderVars>>

\* a <= b, comparing the integer parts before the remainders.
FracLeqWide(a, b) ==
    LET fa == a.n \div a.d
        fb == b.n \div b.d
    IN  IF fa # fb THEN fa < fb ELSE (a.n % a.d) * b.d <= (b.n % b.d) * a.d

InsideCanvas(x, y) ==
    /\ x.n >= 0 /\ FracLeqWide(x, dimensions.width)
    /\ y.n >= 0 /\ FracLeqWide(y, dimensions.height)

\* onWheel / onWheelCapture of the canvas.
handleWheel(cursor, deltaY) ==
    LET mouseX == FracAdd(viewRef.offsetX, Frac(cursor.x, 1))
        mouseY == FracAdd(viewRef.offsetY, Frac(cursor.y, 1))
    IN  /\ hasNodes
        /\ viewRef.scale.d <= MaxScaleDenominator
        /\ viewRef.offsetX.d <= MaxOffsetDenominator
        /\ viewRef.offsetY.d <= MaxOffsetDenominator
        /\ InsideCanvas(mouseX, mouseY)
        /\ viewRef' = ZoomAt(viewRef, mouseX, mouseY, deltaY)
        /\ hasInteractedRef' = TRUE
        /\ UNCHANGED <<viewFixed, forest, positions, dimensions, dragging, pointerOrigin,
                       observed>>

handlePointerDown(point) ==
    /\ hasNodes
    /\ dragging' = TRUE
    /\ pointerOrigin' = point
    /\ hasInteractedRef' = TRUE
    /\ UNCHANGED <<viewFixed, forest, positions, dimensions, viewRef, observed>>

handlePointerMove(point) ==
    LET deltaX == point.x - pointerOrigin.x
        deltaY == point.y - pointerOrigin.y
        moved  == [viewRef EXCEPT !.offsetX = FracAdd(@, Frac(deltaX, 1)),
                                  !.offsetY = FracAdd(@, Frac(deltaY, 1))]
    IN  /\ hasNodes
        /\ IF ~dragging
           THEN UNCHANGED <<viewRef, pointerOrigin>>
           ELSE /\ FracLeq(Frac(0 - MaxPan, 1), moved.offsetX)
                /\ FracLeq(moved.offsetX, Frac(MaxPan, 1))
                /\ FracLeq(Frac(0 - MaxPan, 1), moved.offsetY)
                /\ FracLeq(moved.offsetY, Frac(MaxPan, 1))
                /\ pointerOrigin' = point
                /\ viewRef' = moved
        /\ UNCHANGED <<viewFixed, forest, positions, dimensions, hasInteractedRef, dragging,
                       observed>>

\* onPointerUp, and the onPointerLeave handler, which does the same to the model.
endPan ==
    /\ hasNodes
    /\ dragging' = FALSE
    /\ UNCHANGED <<viewFixed, forest, positions, dimensions, viewRef, hasInteractedRef,
                   pointerOrigin, observed>>

\* The Reset view button, rendered with the canvas.
resetView ==
    /\ hasNodes
    /\ viewRef' = computeInitialView(positionedNodes, dimensions)
    /\ hasInteractedRef' = FALSE
    /\ UNCHANGED <<viewFixed, forest, positions, dimensions, dragging, pointerOrigin,
                   observed>>

\* The ResizeObserver callback, and the layout effect the new dimensions trigger.
Resize(size) ==
    /\ observed
    /\ size # dimensions
    /\ dimensions' = size
    /\ viewRef' = IF hasNodes /\ ~hasInteractedRef
                  THEN computeInitialView(positionedNodes, size)
                  ELSE viewRef
    /\ UNCHANGED <<viewFixed, forest, positions, hasInteractedRef, dragging, pointerOrigin,
                   observed>>

\* The parent passes other nodes: useMemo lays them out, the [nodes] effect
\* clears hasInteractedRef and the layout effect then fits a non-empty
\* forest.  A container rendered anew is not the one the observer watches.
NodesChange(nodes) ==
    /\ nodes # forest
    /\ forest' = nodes
    /\ positions' = Some(layoutForest(nodes))
    /\ hasInteractedRef' = FALSE
    /\ viewRef' = IF nodes # <<>>
                  THEN computeInitialView(layoutForest(nodes), dimensions)
                  ELSE viewRef
    /\ observed' = (observed /\ nodes # <<>>)
    /\ UNCHANGED <<viewFixed, dimensions, dragging, pointerOrigin>>

NextView ==
    \/ \E cursor \in CursorOffsets, deltaY \in WheelDeltas : handleWheel(cursor, deltaY)
    \/ \E point \in PointerPoints : handlePointerDown(point)
    \/ \E point \in PointerPoints : handlePointerMove(point)
    \/ endPan
    \/ resetView
    \/ \E size \in ContainerSizes : Resize(size)
    \/ \E nodes \in ViewForests : NodesChange(nodes)

SpecView == InitView /\ [][NextView]_vars

\* C23: after any sequence of wheel zooms, drags, Reset view clicks,
\* container resizes and changes of the nodes, the scale of the view is
\* within [MIN_SCALE, MAX_SCALE], also in a container narrower or lower than
\* the fit margin.
C23_ScaleInRange ==
    /\ FracLeq(MIN_SCALE, viewRef.scale)
    /\ FracLeq(viewRef.scale, MAX_SCALE)

\* A view fitted at MIN_SCALE in a container narrower and lower than the margin.
C23_Witness ==
    /\ hasNodes
    /\ FracLeq(dimensions.width, Frac(margin, 1))
    /\ FracLeq(dimensions.height, Frac(margin, 1))
    /\ viewRef.scale = MIN_SCALE
    /\ ~hasInteractedRef

\* The world point under the canvas point (x, y) in a view.
WorldPoint(view, x, y) ==
    <<FracQuot(FracSub(x, view.offsetX), view.scale),
      FracQuot(FracSub(y, view.offsetY), view.scale)>>

C24_WitnessMin ==
    /\ viewRef.scale = MIN_SCALE
    /\ hasInteractedRef
    /\ viewRef.offsetX.d > 1

====
